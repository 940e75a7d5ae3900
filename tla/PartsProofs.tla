---------------------------- MODULE PartsProofs -----------------------------
(***************************************************************************)
(* The parts together: what the theorems about each say of all, with the   *)
(* invariants of the other parts.                                          *)
(***************************************************************************)
EXTENDS Parts, PartsDevicesProofs, PartsEventsProofs, FiniteSetTheorems, SequenceTheorems, TLAPS
-----------------------------------------------------------------------------
(* A behaviour is one of one part.                                         *)
LEMMA Begins ==
  ASSUME Init
  PROVE  /\ part = "list" => E!Init
         /\ part = "config" => L!Init
         /\ part = "parse" => P!Init
         /\ part = "contexts" => C!Init
         /\ part = "darwin" => D!Init
         /\ part = "flying" => F!Init
         /\ part = "poll" => W!Init
         /\ part = "commands" => K!Init
         /\ part = "buffers" => B!Init
         /\ part = "plugin" => Q!Init
         /\ part = "unpack" => U!Init
         /\ part = "bayer" => Y!Init
         /\ part \in {"list", "config", "parse", "contexts", "darwin", "flying", "poll", "commands",
                      "buffers", "plugin", "unpack", "bayer"}
  BY DEF Init

LEMMA Goes ==
  ASSUME [Next]_vars
  PROVE  /\ part' = part
         /\ part = "list" => [E!Next]_E!vars
         /\ part = "config" => [L!Next]_L!vars
         /\ part = "parse" => [P!Next]_P!vars
         /\ part = "contexts" => [C!Next]_C!vars
         /\ part = "darwin" => [D!Next]_D!vars
         /\ part = "flying" => [F!Next]_F!vars
         /\ part = "poll" => [W!Next]_W!vars
         /\ part = "commands" => [K!Next]_K!vars
         /\ part = "buffers" => [B!Next]_B!vars
         /\ part = "plugin" => [Q!Next]_Q!vars
         /\ part = "unpack" => [U!Next]_U!vars
         /\ part = "bayer" => [Y!Next]_Y!vars
  <1>1. CASE UNCHANGED vars
    <2> USE <1>1 DEF vars
    <2>1. UNCHANGED E!vars
      BY DEF ofList, E!vars, E!env, E!flags, E!scanning, E!program
    <2>2. UNCHANGED L!vars
      BY DEF ofConfig, L!vars, L!rigid, L!device, L!reading
    <2>3. UNCHANGED P!vars BY DEF ofParse, P!vars
    <2>4. UNCHANGED C!vars BY DEF ofContexts, C!vars, C!core, C!backend
    <2>5. UNCHANGED D!vars BY DEF ofDarwin, D!vars, D!dpriv
    <2>6. UNCHANGED F!vars BY DEF ofFlying, F!vars, F!transfer, F!events
    <2>7. UNCHANGED W!vars BY DEF ofPoll, W!vars, W!rows, W!pipe, W!context, W!poll
    <2>8. UNCHANGED K!vars BY DEF ofCommands, K!vars
    <2>9. UNCHANGED B!vars BY DEF ofBuffers, B!vars, B!pointers, B!sizes
    <2>10. UNCHANGED Q!vars BY DEF ofPlugin, Q!vars, Q!caller, Q!plugin, Q!fakenect
    <2>11. UNCHANGED U!vars BY DEF ofUnpack, U!vars
    <2>12. UNCHANGED Y!vars BY DEF ofBayer, Y!vars
    <2>13. UNCHANGED part OBVIOUS
    <2> QED BY <2>1, <2>2, <2>3, <2>4, <2>5, <2>6, <2>7, <2>8, <2>9, <2>10, <2>11, <2>12, <2>13
  <1>2. CASE Next
    BY <1>2 DEF Next, InList, InConfig, InParse, InContexts, InDarwin, InFlying, InPoll,
         InCommands, InBuffers, InPlugin, InUnpack, InBayer
  <1> QED BY <1>1, <1>2

(* A configuration has up to two interfaces, and says up to one more.      *)
LEMMA ParseInit == P!Init => P!TypeOK
  <1> SUFFICES ASSUME P!Init PROVE P!TypeOK OBVIOUS
  <1>1. /\ configuration \in P!Configurations /\ parsed = <<>>
        /\ bNumInterfaces \in {n \in Len(configuration.interfaces) - 1
                                   .. Len(configuration.interfaces) + 1 : n >= 0}
    BY DEF P!Init
  <1>2. PICK s : s = configuration.interfaces OBVIOUS
  <1>3. Len(s) \in {0, 1, 2}
    <2>1. s \in {<<>>} \cup {<<i>> : i \in P!Interfaces} \cup (P!Interfaces \X P!Interfaces)
      BY <1>1, <1>2 DEF P!Configurations
    <2>2. CASE s = <<>> BY <2>2
    <2>3. CASE s \in {<<i>> : i \in P!Interfaces}
      <3>1. PICK i : s = <<i>> BY <2>3
      <3>2. Len(<<i>>) = 1 OBVIOUS
      <3>3. Len(s) = 1 BY <3>1, <3>2
      <3> QED BY <3>3
    <2>4. CASE s \in P!Interfaces \X P!Interfaces
      <3>1. PICK i, j : s = <<i, j>> BY <2>4
      <3>2. Len(<<i, j>>) = 2 OBVIOUS
      <3>3. Len(s) = 2 BY <3>1, <3>2
      <3> QED BY <3>3
    <2> QED BY <2>1, <2>2, <2>3, <2>4
  <1>4. PICK n : n = Len(s) OBVIOUS
  <1>5. n \in {0, 1, 2} BY <1>3, <1>4
  <1>6. bNumInterfaces \in {m \in n - 1 .. n + 1 : m >= 0} BY <1>1, <1>2, <1>4
  <1>7. bNumInterfaces \in 0 .. 3 BY <1>5, <1>6
  <1>8. Len(parsed) = 0 BY <1>1
  <1> QED BY <1>7, <1>8 DEF P!TypeOK

LEMMA ParseStep == P!TypeOK /\ [P!Next]_P!vars => P!TypeOK'
  <1> SUFFICES ASSUME P!TypeOK, [P!Next]_P!vars PROVE P!TypeOK' OBVIOUS
  <1>1. CASE P!Next
    <2>1. PICK p : p = P!ParseInterfaces(P!Buffer(configuration), bNumInterfaces) OBVIOUS
    <2>2. parsed' = <<p>> /\ bNumInterfaces' = bNumInterfaces BY <1>1, <2>1 DEF P!Next
    <2>3. Len(<<p>>) = 1 OBVIOUS
    <2> QED BY <2>2, <2>3 DEF P!TypeOK
  <1>2. CASE UNCHANGED P!vars BY <1>2 DEF P!vars, P!TypeOK
  <1> QED BY <1>1, <1>2


FrameSize(f) == IF B!Of(f).raw # 0 THEN B!Of(f).raw ELSE B!Of(f).proc

(* What the table of sizes guarantees: every format puts something into    *)
(* its buffer, users' buffers are large enough for all, and an internal    *)
(* one for what the conversion writes, with the exception of IR_10BIT.     *)
LEMMA FormatSizes ==
  ASSUME NEW f \in B!Formats
  PROVE  /\ B!Of(f).raw \in Nat /\ B!Of(f).proc \in Nat \ {0} /\ B!Of(f).out \in Nat
         /\ B!Of(f).proc =< 921600 /\ B!Of(f).out =< 921600
         /\ B!Of(f).out =< B!Of(f).proc \/ f = "IR_10BIT"
  BY SMT DEF B!Formats, B!Of, B!Depth, B!Video, B!Size

(* Which internal buffers there are follows from the pointers alone.       *)
Owned ==
  /\ heap = [lib |-> heap.lib, raw |-> heap.raw] /\ heap.lib \in Nat /\ heap.raw \in Nat
  /\ lib_buf = "NULL" <=> heap.lib = 0
  /\ proc_buf = "lib" => lib_buf = "lib"

Linked ==
  /\ split_bufs \in BOOLEAN
  /\ pc = "stopped" => lib_buf = "NULL" /\ proc_buf = "NULL" /\ raw_buf = "NULL" /\ heap.raw = 0
  /\ pc # "stopped" =>
       /\ proc_buf # "NULL"
       /\ split_bufs => raw_buf = "raw" /\ heap.raw # 0
       /\ ~split_bufs => raw_buf = proc_buf /\ heap.raw = 0

(* Unless something was set during the start, what it found is in force.   *)
Current ==
  pc \in {"starting", "running", "callback"} /\ ~late =>
    /\ proc_buf = IF usr_buf = "NULL" THEN "lib" ELSE usr_buf
    /\ frame_size = FrameSize(format) /\ (split_bufs <=> B!Of(format).raw # 0)
    /\ lib_buf = "lib" => heap.lib = B!Of(format).proc
    /\ split_bufs => heap.raw = frame_size

(* Packets of a frame are together while no buffer was set outside of a    *)
(* callback.                                                               *)
Together ==
  /\ pc = "starting" => filled = {}
  /\ pc = "running" /\ ~switched => filled \in {{}, {raw_buf}}
  /\ pc = "callback" /\ ~switched => filled = {B!Assembled}

BuffersInv == B!TypeOK /\ Owned /\ Linked /\ Current /\ Together

LEMMA BuffersInit == B!Init => BuffersInv
  <1> SUFFICES ASSUME B!Init PROVE BuffersInv OBVIOUS
  <1>1. B!TypeOK
    <2>1. {"DEPTH_11BIT", "VIDEO_RGB"} \subseteq B!Formats BY SMT DEF B!Formats, B!Depth, B!Video
    <2> QED BY <2>1 DEF B!Init, B!TypeOK
  <1>2. Owned /\ Linked BY DEF B!Init, Owned, Linked
  <1>3. Current /\ Together BY DEF B!Init, Current, Together
  <1> QED BY <1>1, <1>2, <1>3 DEF BuffersInv

LEMMA BuffersStep == BuffersInv /\ [B!Next]_B!vars => BuffersInv'
  <1> SUFFICES ASSUME BuffersInv, [B!Next]_B!vars PROVE BuffersInv' OBVIOUS
  <1> USE BuffersAssumption DEF BuffersInv
  <1>0. \A f \in B!Formats :
          /\ B!Of(f).raw \in Nat /\ B!Of(f).proc \in Nat \ {0} /\ B!Of(f).out \in Nat
          /\ FrameSize(f) \in Nat \ {0}
    BY FormatSizes DEF FrameSize
  <1>1. CASE B!Start
    <2>1. B!TypeOK' BY <1>1 DEF B!Start, B!TypeOK
    <2>2. Owned' BY <1>1, <1>0 DEF B!Start, B!TypeOK, Owned, Linked
    <2>3. Linked' BY <1>1, <1>0 DEF B!Start, B!TypeOK, Owned, Linked
    <2>4. Current' BY <1>1, <1>0 DEF B!Start, B!TypeOK, Current, FrameSize
    <2>5. Together' BY <1>1 DEF B!Start, Together
    <2> QED BY <2>1, <2>2, <2>3, <2>4, <2>5
  <1>2. CASE B!Started
    <2> USE <1>2 DEF B!Started, B!pointers, B!sizes
    <2>1. B!TypeOK' BY DEF B!TypeOK
    <2>2. Owned' BY DEF Owned
    <2>3. Linked' BY DEF Linked
    <2>4. Current' BY DEF Current
    <2>5. Together' BY DEF Together, B!TypeOK
    <2> QED BY <2>1, <2>2, <2>3, <2>4, <2>5
  <1>3. CASE B!Stop
    <2> USE <1>3 DEF B!Stop, B!pointers, B!sizes
    <2>1. B!TypeOK' BY DEF B!TypeOK
    <2>2. Owned' BY DEF Owned
    <2>3. Linked' BY DEF Linked
    <2>4. Current' BY DEF Current
    <2>5. Together' BY DEF Together
    <2> QED BY <2>1, <2>2, <2>3, <2>4, <2>5
  <1>4. CASE B!Stopped
    <2> USE <1>4 DEF B!Stopped
    <2>1. B!TypeOK' BY DEF B!TypeOK
    <2>2. Owned' BY DEF Owned, Linked
    <2>3. Linked' BY DEF Owned, Linked
    <2>4. Current' BY DEF Current
    <2>5. Together' BY DEF Together
    <2> QED BY <2>1, <2>2, <2>3, <2>4, <2>5
  <1>5. ASSUME NEW b \in UserBufs \cup {"NULL"}, B!SetBuf(b) PROVE BuffersInv'
    <2> USE <1>5 DEF B!SetBuf, B!sizes
    <2>1. B!TypeOK' BY DEF B!TypeOK
    <2>2. Owned' BY DEF B!TypeOK, Owned, Linked, B!Refused
    <2>3. Linked' BY DEF B!TypeOK, Owned, Linked, B!Refused
    <2>4. Current' BY DEF B!TypeOK, Owned, Current, B!Refused
    <2>5. Together' BY DEF B!TypeOK, Linked, Together, B!Assembled
    <2> QED BY <2>1, <2>2, <2>3, <2>4, <2>5
  <1>6. ASSUME NEW f \in B!Formats, B!SetFormat(f) PROVE BuffersInv'
    <2> USE <1>6 DEF B!SetFormat, B!pointers, B!sizes
    <2>1. B!TypeOK' BY DEF B!TypeOK
    <2>2. Owned' BY DEF Owned
    <2>3. Linked' BY DEF Linked
    <2>4. Current' BY DEF B!TypeOK, Current
    <2>5. Together' BY DEF B!TypeOK, Together, B!Assembled
    <2> QED BY <2>1, <2>2, <2>3, <2>4, <2>5
  <1>7. CASE B!Packet
    <2> USE <1>7 DEF B!Packet, B!pointers, B!sizes
    <2>1. B!TypeOK' BY DEF B!TypeOK
    <2>2. Owned' BY DEF Owned
    <2>3. Linked' BY DEF Linked
    <2>4. Current' BY DEF Current
    <2>5. Together' BY DEF Together
    <2> QED BY <2>1, <2>2, <2>3, <2>4, <2>5
  <1>8. CASE B!LastPacket
    <2> USE <1>8 DEF B!LastPacket, B!pointers, B!sizes
    <2>1. B!TypeOK' BY DEF B!TypeOK
    <2>2. Owned' BY DEF Owned
    <2>3. Linked' BY DEF Linked
    <2>4. Current' BY DEF Current
    <2>5. Together' BY DEF Linked, Together, B!Assembled
    <2> QED BY <2>1, <2>2, <2>3, <2>4, <2>5
  <1>9. ASSUME NEW ahead \in BOOLEAN, B!Return(ahead) PROVE BuffersInv'
    <2> USE <1>9 DEF B!Return, B!pointers, B!sizes
    <2>1. B!TypeOK' BY DEF B!TypeOK
    <2>2. Owned' BY DEF Owned
    <2>3. Linked' BY DEF Linked
    <2>4. Current' BY DEF Current
    <2>5. Together' BY DEF Linked, Together, B!Assembled
    <2> QED BY <2>1, <2>2, <2>3, <2>4, <2>5
  <1>10. CASE UNCHANGED B!vars
    <2> USE <1>10 DEF B!vars, B!pointers, B!sizes
    <2>1. B!TypeOK' BY DEF B!TypeOK
    <2>2. Owned' BY DEF Owned
    <2>3. Linked' BY DEF Linked
    <2>4. Current' BY DEF Current
    <2>5. Together' BY DEF Together, B!Assembled
    <2> QED BY <2>1, <2>2, <2>3, <2>4, <2>5
  <1> QED
    BY <1>1, <1>2, <1>3, <1>4, <1>5, <1>6, <1>7, <1>8, <1>9, <1>10 DEF B!Next

(* A running stream has the buffer that was set last, or its own, and room *)
(* for the frame and what is made of it, except in IR_10BIT (stream_init,  *)
(* stream_setbuf).                                                         *)
LEMMA BuffersSuffice == ASSUME BuffersInv PROVE B!BufferSet
<1> SUFFICES ASSUME running, ~late
             PROVE  /\ proc_buf = IF usr_buf = "NULL" THEN "lib" ELSE usr_buf
                    /\ B!Room(raw_buf) >= frame_size
                    /\ B!Room(proc_buf) >= B!Of(format).out \/ format = "IR_10BIT"
  BY DEF B!BufferSet
<1>1. pc \in {"running", "callback"} /\ format \in B!Formats
  BY DEF BuffersInv, B!TypeOK
<1>2. /\ B!Of(format).raw \in Nat /\ B!Of(format).proc \in Nat \ {0} /\ B!Of(format).out \in Nat
      /\ B!Of(format).proc =< 921600 /\ B!Of(format).out =< 921600
      /\ B!Of(format).out =< B!Of(format).proc \/ format = "IR_10BIT"
  BY <1>1, FormatSizes
<1>3. /\ proc_buf = IF usr_buf = "NULL" THEN "lib" ELSE usr_buf
      /\ frame_size = FrameSize(format) /\ (split_bufs <=> B!Of(format).raw # 0)
      /\ lib_buf = "lib" => heap.lib = B!Of(format).proc
      /\ split_bufs => heap.raw = frame_size
  BY <1>1 DEF BuffersInv, Current
<1>4. usr_buf \in UserBufs \cup {"NULL"}
  BY DEF BuffersInv, B!TypeOK
<1>5. /\ proc_buf = "lib" => lib_buf = "lib"
      /\ split_bufs => raw_buf = "raw"
      /\ ~split_bufs => raw_buf = proc_buf
  BY <1>1 DEF BuffersInv, Owned, Linked
<1>6. B!Room(proc_buf) = 921600 \/ B!Room(proc_buf) = B!Of(format).proc
  BY <1>3, <1>4, <1>5, BuffersAssumption DEF B!Room
<1>7. FrameSize(format) =< B!Of(format).proc \/ split_bufs
  BY <1>2, <1>3 DEF FrameSize
<1>8. B!Room(proc_buf) >= B!Of(format).out \/ format = "IR_10BIT"
  BY <1>2, <1>6
<1>9. CASE split_bufs
  <2>1. B!Room(raw_buf) = frame_size
    BY <1>3, <1>5, <1>9, BuffersAssumption DEF B!Room
  <2>2. frame_size \in Nat
    BY <1>2, <1>3 DEF FrameSize
  <2> QED BY <1>3, <1>8, <2>1, <2>2
<1>10. CASE ~split_bufs
  <2>1. B!Room(raw_buf) \in Nat /\ B!Room(raw_buf) >= B!Of(format).proc
    BY <1>2, <1>5, <1>6, <1>10
  <2>2. frame_size =< B!Of(format).proc
    BY <1>3, <1>7, <1>10
  <2>3. frame_size \in Nat
    BY <1>2, <1>3 DEF FrameSize
  <2> QED BY <1>2, <1>3, <1>8, <2>1, <2>2, <2>3
<1> QED BY <1>9, <1>10

(* The callback is given a frame made of packets that are all there.       *)
LEMMA FramesTogether == BuffersInv => B!FrameTogether
  BY DEF BuffersInv, Together, B!FrameTogether

(* Every stop frees the internal buffers (stream_freebufs), and no pointer *)
(* is to a buffer that is free.                                            *)
LEMMA NothingLeaked == ASSUME BuffersInv PROVE B!BuffersFreed
<1>1. DOMAIN heap = {"lib", "raw"}
  BY DEF BuffersInv, Owned
<1>2. pc = "stopped" => heap.lib = 0 /\ heap.raw = 0
  BY DEF BuffersInv, Owned, Linked
<1>3. heap.lib = 0 => "lib" \notin {lib_buf, raw_buf, proc_buf}
  BY BuffersAssumption DEF BuffersInv, B!TypeOK, Owned, Linked
<1>4. heap.raw = 0 => "raw" \notin {lib_buf, raw_buf, proc_buf}
  BY BuffersAssumption DEF BuffersInv, B!TypeOK, Owned, Linked
<1> QED BY <1>1, <1>2, <1>3, <1>4 DEF B!BuffersFreed

Mains == {"idle", "command", "control", "join", "choose", "open", "create", "stop", "free"}
Places == {"none", "begin", "start", "loop", "copy", "stop", "close", "clear", "exited"}
Using == {"begin", "start", "loop", "copy", "stop", "close"}

PluginTypes ==
  /\ main \in Mains /\ who \in Plugins \cup {0} /\ arg \in {"0", "fake", "real"}
  /\ started \in [Plugins -> BOOLEAN] /\ useFakenect \in [Plugins -> BOOLEAN]
  /\ dev \in [Plugins -> {"0", "fake", "real"}] /\ die \in [Plugins -> BOOLEAN]
  /\ open \in [Plugins -> BOOLEAN] /\ thread \in [Plugins -> Places]
  /\ user_ptr \in Plugins \cup {0} /\ rgb_buffer \in Plugins \cup {0}
  /\ cur_rgb \in [Plugins -> Plugins \cup {0}] /\ quit \in SUBSET Plugins

(* What main is about.                                                     *)
MainKnows ==
  /\ main # "idle" => who \in Plugins /\ started[who]
  /\ main \in {"choose", "open", "create", "free"} => thread[who] = "none"
  /\ main = "create" => dev[who] # "0" /\ open[who] = (dev[who] = "real") /\ ~die[who]

(* The thread of a plug-in has a device, and leaves it when told to, or    *)
(* is in quit.                                                             *)
Told(p) == main \in {"join", "stop"} /\ who = p
ThreadKnows ==
  \A p \in Plugins :
    /\ thread[p] # "none" => started[p]
    /\ thread[p] \in Using => dev[p] # "0" /\ open[p] = (dev[p] = "real")
    /\ thread[p] = "clear" => ~open[p]
    /\ thread[p] \in {"none", "exited"} /\ ~(main = "create" /\ who = p) => ~open[p] /\ dev[p] = "0"
    /\ thread[p] \in {"begin", "start", "loop", "copy"} => Told(p) \/ ~die[p]
    /\ thread[p] \in {"stop", "close", "clear", "exited"} => Told(p) \/ p \in quit

(* The device of a command was there when it was tested, and goes only if  *)
(* the thread has quit.                                                    *)
CommandKnows ==
  /\ main \in {"command", "control"} =>
       who \in quit \/ thread[who] \in {"begin", "start", "loop", "copy"}
  /\ main = "control" => who \in quit \/ arg = dev[who]

(* The state that all plug-ins share in fakenect.                          *)
FakeKnows ==
  /\ \A p \in Plugins : thread[p] = "copy" => dev[p] = "fake"
  /\ ~shared =>
       /\ main = "create" /\ dev[who] = "fake" => user_ptr = who
       /\ \A p \in Plugins :
            /\ Q!Runs(p) /\ dev[p] = "fake" => user_ptr = p
            /\ thread[p] \in {"start", "loop", "copy"} /\ dev[p] = "fake" => rgb_buffer = p
            /\ thread[p] = "copy" => cur_rgb[p] = p

DeviceInv == PluginTypes /\ MainKnows /\ ThreadKnows /\ CommandKnows /\ FakeKnows

LEMMA DeviceInit == Q!Init => DeviceInv
  <1> SUFFICES ASSUME Q!Init PROVE DeviceInv OBVIOUS
  <1>1. PluginTypes BY DEF Q!Init, PluginTypes, Mains, Places
  <1>2. MainKnows /\ CommandKnows BY DEF Q!Init, MainKnows, CommandKnows
  <1>3. ThreadKnows BY DEF Q!Init, ThreadKnows, Using
  <1>4. FakeKnows BY DEF Q!Init, FakeKnows, Q!Runs
  <1> QED BY <1>1, <1>2, <1>3, <1>4 DEF DeviceInv

LEMMA DeviceStep == DeviceInv /\ [Q!Next]_Q!vars => DeviceInv'
  <1> SUFFICES ASSUME DeviceInv, [Q!Next]_Q!vars PROVE DeviceInv' OBVIOUS
  <1> USE PluginsAssumption DEF DeviceInv, Q!caller, Q!plugin, Q!fakenect
  <1>1. ASSUME NEW p \in Plugins, Q!StartExecution(p) PROVE DeviceInv'
    <2> USE <1>1 DEF Q!StartExecution
    <2>1. PluginTypes' BY DEF PluginTypes, MainKnows, Mains, Places
    <2>2. MainKnows' BY DEF PluginTypes, MainKnows, ThreadKnows, Using, Places
    <2>3. ThreadKnows' BY DEF PluginTypes, MainKnows, ThreadKnows, Told, Using, Places
    <2>4. CommandKnows' BY DEF PluginTypes, MainKnows, ThreadKnows, CommandKnows, Told, Using,
                           Places
    <2>5. FakeKnows' BY DEF PluginTypes, MainKnows, ThreadKnows, FakeKnows, Q!Runs, Q!Fake,
                        Using, Places
    <2> QED BY <2>1, <2>2, <2>3, <2>4, <2>5
  <1>2. ASSUME NEW p \in Plugins, Q!Command(p) PROVE DeviceInv'
    <2> USE <1>2 DEF Q!Command
    <2>1. PluginTypes' BY DEF PluginTypes, MainKnows, Mains, Places
    <2>2. MainKnows' BY DEF PluginTypes, MainKnows, ThreadKnows, Using, Places
    <2>3. ThreadKnows' BY DEF PluginTypes, MainKnows, ThreadKnows, Told, Using, Places
    <2>4. CommandKnows' BY DEF PluginTypes, MainKnows, ThreadKnows, CommandKnows, Told, Using,
                           Places
    <2>5. FakeKnows' BY DEF PluginTypes, MainKnows, ThreadKnows, FakeKnows, Q!Runs, Q!Fake,
                        Using, Places
    <2> QED BY <2>1, <2>2, <2>3, <2>4, <2>5
  <1>3. CASE Q!Control
    <2> USE <1>3 DEF Q!Control
    <2>1. PluginTypes' BY DEF PluginTypes, MainKnows, Mains, Places
    <2>2. MainKnows' BY DEF PluginTypes, MainKnows, ThreadKnows, Using, Places
    <2>3. ThreadKnows' BY DEF PluginTypes, MainKnows, ThreadKnows, Told, Using, Places
    <2>4. CommandKnows' BY DEF PluginTypes, MainKnows, ThreadKnows, CommandKnows, Told, Using,
                           Places
    <2>5. FakeKnows' BY DEF PluginTypes, MainKnows, ThreadKnows, FakeKnows, Q!Runs, Q!Fake,
                        Using, Places
    <2> QED BY <2>1, <2>2, <2>3, <2>4, <2>5
  <1>4. CASE Q!Controlled
    <2> USE <1>4 DEF Q!Controlled
    <2>1. PluginTypes' BY DEF PluginTypes, MainKnows, Mains, Places
    <2>2. MainKnows' BY DEF PluginTypes, MainKnows, ThreadKnows, Using, Places
    <2>3. ThreadKnows' BY DEF PluginTypes, MainKnows, ThreadKnows, Told, Using, Places
    <2>4. CommandKnows' BY DEF PluginTypes, MainKnows, ThreadKnows, CommandKnows, Told, Using,
                           Places
    <2>5. FakeKnows' BY DEF PluginTypes, MainKnows, ThreadKnows, FakeKnows, Q!Runs, Q!Fake,
                        Using, Places
    <2> QED BY <2>1, <2>2, <2>3, <2>4, <2>5
  <1>5. ASSUME NEW p \in Plugins, Q!Change(p) PROVE DeviceInv'
    <2> USE <1>5 DEF Q!Change
    <2>1. PluginTypes' BY DEF PluginTypes, MainKnows, Mains, Places
    <2>2. MainKnows' BY DEF PluginTypes, MainKnows, ThreadKnows, Using, Places
    <2>3. ThreadKnows' BY DEF PluginTypes, MainKnows, ThreadKnows, Told, Using, Places
    <2>4. CommandKnows' BY DEF PluginTypes, MainKnows, ThreadKnows, CommandKnows, Told, Using,
                           Places
    <2>5. FakeKnows' BY DEF PluginTypes, MainKnows, ThreadKnows, FakeKnows, Q!Runs, Q!Fake,
                        Using, Places
    <2> QED BY <2>1, <2>2, <2>3, <2>4, <2>5
  <1>6. CASE Q!Join
    <2> USE <1>6 DEF Q!Join
    <2>1. PluginTypes' BY DEF PluginTypes, MainKnows, Mains, Places
    <2>2. MainKnows' BY DEF PluginTypes, MainKnows, ThreadKnows, Using, Places
    <2>3. ThreadKnows' BY DEF PluginTypes, MainKnows, ThreadKnows, Told, Using, Places
    <2>4. CommandKnows' BY DEF PluginTypes, MainKnows, ThreadKnows, CommandKnows, Told, Using,
                           Places
    <2>5. FakeKnows' BY DEF PluginTypes, MainKnows, ThreadKnows, FakeKnows, Q!Runs, Q!Fake,
                        Using, Places
    <2> QED BY <2>1, <2>2, <2>3, <2>4, <2>5
  <1>7. ASSUME NEW input \in {"fakenect", "libfreenect", "missing"}, Q!Choose(input) PROVE DeviceInv'
    <2> USE <1>7 DEF Q!Choose
    <2>1. PluginTypes' BY DEF PluginTypes, MainKnows, Mains, Places
    <2>2. MainKnows' BY DEF PluginTypes, MainKnows, ThreadKnows, Using, Places
    <2>3. ThreadKnows' BY DEF PluginTypes, MainKnows, ThreadKnows, Told, Using, Places
    <2>4. CommandKnows' BY DEF PluginTypes, MainKnows, ThreadKnows, CommandKnows, Told, Using,
                           Places
    <2>5. FakeKnows' BY DEF PluginTypes, MainKnows, ThreadKnows, FakeKnows, Q!Runs, Q!Fake,
                        Using, Places
    <2> QED BY <2>1, <2>2, <2>3, <2>4, <2>5
  <1>8. CASE Q!OpenFails
    <2> USE <1>8 DEF Q!OpenFails
    <2>1. PluginTypes' BY DEF PluginTypes, MainKnows, Mains, Places
    <2>2. MainKnows' BY DEF PluginTypes, MainKnows, ThreadKnows, Using, Places
    <2>3. ThreadKnows' BY DEF PluginTypes, MainKnows, ThreadKnows, Told, Using, Places
    <2>4. CommandKnows' BY DEF PluginTypes, MainKnows, ThreadKnows, CommandKnows, Told, Using,
                           Places
    <2>5. FakeKnows' BY DEF PluginTypes, MainKnows, ThreadKnows, FakeKnows, Q!Runs, Q!Fake,
                        Using, Places
    <2> QED BY <2>1, <2>2, <2>3, <2>4, <2>5
  <1>9. CASE Q!Opened
    <2> USE <1>9 DEF Q!Opened
    <2>1. PluginTypes' BY DEF PluginTypes, MainKnows, Mains, Places
    <2>2. MainKnows'
      <3>1. who \in Plugins /\ started'[who] /\ thread'[who] = "none" BY DEF MainKnows
      <3>2. dev'[who] # "0" /\ ~die'[who] BY <3>1 DEF PluginTypes
      <3>3. open'[who] = (dev'[who] = "real")
        <4>1. CASE useFakenect[who]
          <5>1. dev'[who] = "fake" BY <3>1, <4>1 DEF PluginTypes
          <5>2. open'[who] = FALSE BY <3>1, <4>1 DEF PluginTypes, ThreadKnows
          <5> QED BY <5>1, <5>2
        <4>2. CASE ~useFakenect[who] BY <3>1, <4>2 DEF PluginTypes
        <4> QED BY <4>1, <4>2
      <3> QED BY <3>1, <3>2, <3>3 DEF MainKnows
    <2>3. ThreadKnows' BY DEF PluginTypes, MainKnows, ThreadKnows, Told, Using, Places
    <2>4. CommandKnows' BY DEF PluginTypes, MainKnows, ThreadKnows, CommandKnows, Told, Using,
                           Places
    <2>5. FakeKnows' BY DEF PluginTypes, MainKnows, ThreadKnows, FakeKnows, Q!Runs, Q!Fake,
                        Using, Places
    <2> QED BY <2>1, <2>2, <2>3, <2>4, <2>5
  <1>10. CASE Q!Create
    <2> USE <1>10 DEF Q!Create
    <2>1. PluginTypes' BY DEF PluginTypes, MainKnows, Mains, Places
    <2>2. MainKnows' BY DEF PluginTypes, MainKnows, ThreadKnows, Using, Places
    <2>3. ThreadKnows' BY DEF PluginTypes, MainKnows, ThreadKnows, Told, Using, Places
    <2>4. CommandKnows' BY DEF PluginTypes, MainKnows, ThreadKnows, CommandKnows, Told, Using,
                           Places
    <2>5. FakeKnows' BY DEF PluginTypes, MainKnows, ThreadKnows, FakeKnows, Q!Runs, Q!Fake,
                        Using, Places
    <2> QED BY <2>1, <2>2, <2>3, <2>4, <2>5
  <1>11. CASE Q!CreateFails
    <2> USE <1>11 DEF Q!CreateFails
    <2>1. PluginTypes' BY DEF PluginTypes, MainKnows, Mains, Places
    <2>2. MainKnows' BY DEF PluginTypes, MainKnows, ThreadKnows, Using, Places
    <2>3. ThreadKnows'
      <3>1. /\ main = "create" /\ main' = "idle" /\ who \in Plugins /\ thread[who] = "none"
            /\ ~open'[who] /\ dev'[who] = "0" /\ UNCHANGED <<who, started, die, thread, quit>>
            /\ \A p \in Plugins \ {who} : open'[p] = open[p] /\ dev'[p] = dev[p]
        BY DEF PluginTypes, MainKnows
      <3>2. \A p \in Plugins : ~Told(p) BY <3>1 DEF Told
      <3> QED BY <3>1, <3>2 DEF ThreadKnows, Told, Using
    <2>4. CommandKnows' BY DEF PluginTypes, MainKnows, ThreadKnows, CommandKnows, Told, Using,
                           Places
    <2>5. FakeKnows' BY DEF PluginTypes, MainKnows, ThreadKnows, FakeKnows, Q!Runs, Q!Fake,
                        Using, Places
    <2> QED BY <2>1, <2>2, <2>3, <2>4, <2>5
  <1>12. ASSUME NEW p \in Plugins, Q!StopExecution(p) PROVE DeviceInv'
    <2> USE <1>12 DEF Q!StopExecution
    <2>1. PluginTypes' BY DEF PluginTypes, MainKnows, Mains, Places
    <2>2. MainKnows' BY DEF PluginTypes, MainKnows, ThreadKnows, Using, Places
    <2>3. ThreadKnows' BY DEF PluginTypes, MainKnows, ThreadKnows, Told, Using, Places
    <2>4. CommandKnows' BY DEF PluginTypes, MainKnows, ThreadKnows, CommandKnows, Told, Using,
                           Places
    <2>5. FakeKnows' BY DEF PluginTypes, MainKnows, ThreadKnows, FakeKnows, Q!Runs, Q!Fake,
                        Using, Places
    <2> QED BY <2>1, <2>2, <2>3, <2>4, <2>5
  <1>13. CASE Q!Shutdown
    <2> USE <1>13 DEF Q!Shutdown
    <2>1. PluginTypes' BY DEF PluginTypes, MainKnows, Mains, Places
    <2>2. MainKnows' BY DEF PluginTypes, MainKnows, ThreadKnows, Using, Places
    <2>3. ThreadKnows' BY DEF PluginTypes, MainKnows, ThreadKnows, Told, Using, Places
    <2>4. CommandKnows' BY DEF PluginTypes, MainKnows, ThreadKnows, CommandKnows, Told, Using,
                           Places
    <2>5. FakeKnows' BY DEF PluginTypes, MainKnows, ThreadKnows, FakeKnows, Q!Runs, Q!Fake,
                        Using, Places
    <2> QED BY <2>1, <2>2, <2>3, <2>4, <2>5
  <1>14. CASE Q!Free
    <2> USE <1>14 DEF Q!Free
    <2>1. PluginTypes' BY DEF PluginTypes, MainKnows, Mains, Places
    <2>2. MainKnows' BY DEF PluginTypes, MainKnows, ThreadKnows, Using, Places
    <2>3. ThreadKnows' BY DEF PluginTypes, MainKnows, ThreadKnows, Told, Using, Places
    <2>4. CommandKnows' BY DEF PluginTypes, MainKnows, ThreadKnows, CommandKnows, Told, Using,
                           Places
    <2>5. FakeKnows' BY DEF PluginTypes, MainKnows, ThreadKnows, FakeKnows, Q!Runs, Q!Fake,
                        Using, Places
    <2> QED BY <2>1, <2>2, <2>3, <2>4, <2>5
  <1>15. ASSUME NEW p \in Plugins, Q!SetUp(p) PROVE DeviceInv'
    <2> USE <1>15 DEF Q!SetUp, Q!Goto
    <2>1. PluginTypes' BY DEF PluginTypes, MainKnows, Mains, Places
    <2>2. MainKnows' BY DEF PluginTypes, MainKnows, ThreadKnows, Using, Places
    <2>3. ThreadKnows' BY DEF PluginTypes, MainKnows, ThreadKnows, Told, Using, Places
    <2>4. CommandKnows' BY DEF PluginTypes, MainKnows, ThreadKnows, CommandKnows, Told, Using,
                           Places
    <2>5. FakeKnows' BY DEF PluginTypes, MainKnows, ThreadKnows, FakeKnows, Q!Runs, Q!Fake,
                        Using, Places
    <2> QED BY <2>1, <2>2, <2>3, <2>4, <2>5
  <1>16. ASSUME NEW p \in Plugins, Q!StartVideo(p) PROVE DeviceInv'
    <2> USE <1>16 DEF Q!StartVideo, Q!Goto
    <2>1. PluginTypes' BY DEF PluginTypes, MainKnows, Mains, Places
    <2>2. MainKnows' BY DEF PluginTypes, MainKnows, ThreadKnows, Using, Places
    <2>3. ThreadKnows' BY DEF PluginTypes, MainKnows, ThreadKnows, Told, Using, Places
    <2>4. CommandKnows' BY DEF PluginTypes, MainKnows, ThreadKnows, CommandKnows, Told, Using,
                           Places
    <2>5. FakeKnows' BY DEF PluginTypes, MainKnows, ThreadKnows, FakeKnows, Q!Runs, Q!Fake,
                        Using, Places
    <2> QED BY <2>1, <2>2, <2>3, <2>4, <2>5
  <1>17. ASSUME NEW p \in Plugins, Q!Events(p) PROVE DeviceInv'
    <2> USE <1>17 DEF Q!Events, Q!Goto
    <2>1. PluginTypes' BY DEF PluginTypes, MainKnows, Mains, Places
    <2>2. MainKnows' BY DEF PluginTypes, MainKnows, ThreadKnows, Using, Places
    <2>3. ThreadKnows' BY DEF PluginTypes, MainKnows, ThreadKnows, Told, Using, Places
    <2>4. CommandKnows' BY DEF PluginTypes, MainKnows, ThreadKnows, CommandKnows, Told, Using,
                           Places
    <2>5. FakeKnows' BY DEF PluginTypes, MainKnows, ThreadKnows, FakeKnows, Q!Runs, Q!Fake,
                        Using, Places
    <2> QED BY <2>1, <2>2, <2>3, <2>4, <2>5
  <1>18. ASSUME NEW p \in Plugins, Q!Callback(p) PROVE DeviceInv'
    <2> USE <1>18 DEF Q!Callback, Q!Goto
    <2>1. PluginTypes' BY DEF PluginTypes, MainKnows, Mains, Places
    <2>2. MainKnows' BY DEF PluginTypes, MainKnows, ThreadKnows, Using, Places
    <2>3. ThreadKnows' BY DEF PluginTypes, MainKnows, ThreadKnows, Told, Using, Places
    <2>4. CommandKnows' BY DEF PluginTypes, MainKnows, ThreadKnows, CommandKnows, Told, Using,
                           Places
    <2>5. FakeKnows' BY DEF PluginTypes, MainKnows, ThreadKnows, FakeKnows, Q!Runs, Q!Fake,
                        Using, Places
    <2> QED BY <2>1, <2>2, <2>3, <2>4, <2>5
  <1>19. ASSUME NEW p \in Plugins, Q!LeaveLoop(p) PROVE DeviceInv'
    <2> USE <1>19 DEF Q!LeaveLoop, Q!Goto
    <2>1. PluginTypes' BY DEF PluginTypes, MainKnows, Mains, Places
    <2>2. MainKnows' BY DEF PluginTypes, MainKnows, ThreadKnows, Using, Places
    <2>3. ThreadKnows' BY DEF PluginTypes, MainKnows, ThreadKnows, Told, Using, Places
    <2>4. CommandKnows' BY DEF PluginTypes, MainKnows, ThreadKnows, CommandKnows, Told, Using,
                           Places
    <2>5. FakeKnows' BY DEF PluginTypes, MainKnows, ThreadKnows, FakeKnows, Q!Runs, Q!Fake,
                        Using, Places
    <2> QED BY <2>1, <2>2, <2>3, <2>4, <2>5
  <1>20. ASSUME NEW p \in Plugins, Q!StopVideo(p) PROVE DeviceInv'
    <2> USE <1>20 DEF Q!StopVideo, Q!Goto
    <2>1. PluginTypes' BY DEF PluginTypes, MainKnows, Mains, Places
    <2>2. MainKnows' BY DEF PluginTypes, MainKnows, ThreadKnows, Using, Places
    <2>3. ThreadKnows' BY DEF PluginTypes, MainKnows, ThreadKnows, Told, Using, Places
    <2>4. CommandKnows' BY DEF PluginTypes, MainKnows, ThreadKnows, CommandKnows, Told, Using,
                           Places
    <2>5. FakeKnows' BY DEF PluginTypes, MainKnows, ThreadKnows, FakeKnows, Q!Runs, Q!Fake,
                        Using, Places
    <2> QED BY <2>1, <2>2, <2>3, <2>4, <2>5
  <1>21. ASSUME NEW p \in Plugins, Q!Close(p) PROVE DeviceInv'
    <2> USE <1>21 DEF Q!Close, Q!Goto
    <2>1. PluginTypes' BY DEF PluginTypes, MainKnows, Mains, Places
    <2>2. MainKnows' BY DEF PluginTypes, MainKnows, ThreadKnows, Using, Places
    <2>3. ThreadKnows' BY DEF PluginTypes, MainKnows, ThreadKnows, Told, Using, Places
    <2>4. CommandKnows' BY DEF PluginTypes, MainKnows, ThreadKnows, CommandKnows, Told, Using,
                           Places
    <2>5. FakeKnows' BY DEF PluginTypes, MainKnows, ThreadKnows, FakeKnows, Q!Runs, Q!Fake,
                        Using, Places
    <2> QED BY <2>1, <2>2, <2>3, <2>4, <2>5
  <1>22. ASSUME NEW p \in Plugins, Q!Clear(p) PROVE DeviceInv'
    <2> USE <1>22 DEF Q!Clear, Q!Goto
    <2>1. PluginTypes' BY DEF PluginTypes, MainKnows, Mains, Places
    <2>2. MainKnows' BY DEF PluginTypes, MainKnows, ThreadKnows, Using, Places
    <2>3. ThreadKnows' BY DEF PluginTypes, MainKnows, ThreadKnows, Told, Using, Places
    <2>4. CommandKnows' BY DEF PluginTypes, MainKnows, ThreadKnows, CommandKnows, Told, Using,
                           Places
    <2>5. FakeKnows' BY DEF PluginTypes, MainKnows, ThreadKnows, FakeKnows, Q!Runs, Q!Fake,
                        Using, Places
    <2> QED BY <2>1, <2>2, <2>3, <2>4, <2>5
  <1>23. CASE UNCHANGED Q!vars
    <2> USE <1>23 DEF Q!vars
    <2>1. PluginTypes' BY DEF PluginTypes
    <2>2. MainKnows' BY DEF MainKnows
    <2>3. ThreadKnows' BY DEF ThreadKnows, Told
    <2>4. CommandKnows' BY DEF CommandKnows
    <2>5. FakeKnows' BY DEF FakeKnows, Q!Runs
    <2> QED BY <2>1, <2>2, <2>3, <2>4, <2>5
  <1> QED
    BY <1>1, <1>2, <1>3, <1>4, <1>5, <1>6, <1>7, <1>8, <1>9, <1>10, <1>11, <1>12, <1>13, <1>14,
       <1>15, <1>16, <1>17, <1>18, <1>19, <1>20, <1>21, <1>22, <1>23 DEF Q!Next

(* Commands (execute) and the freenect thread use a device only while it   *)
(* is open, unless the thread ends by itself; nothing stays open.          *)
LEMMA DeviceUsedOpen == ASSUME DeviceInv PROVE Q!UsedOpen
<1>1. main = "control" => arg = "fake" \/ (arg = "real" /\ open[who]) \/ who \in quit
  BY DEF DeviceInv, PluginTypes, MainKnows, ThreadKnows, CommandKnows, Using
<1>2. \A p \in Plugins :
        /\ thread[p] \in Using => dev[p] # "0" /\ open[p] = (dev[p] = "real")
        /\ thread[p] \in {"none", "exited"} /\ ~(main = "create" /\ who = p) => ~open[p] /\ dev[p] = "0"
  BY DEF DeviceInv, ThreadKnows
<1> QED BY <1>1, <1>2 DEF Q!UsedOpen, Using

(* A recording is played for the plug-in that opened it, into its buffer,  *)
(* as long as no other has played one at the same time (fakenect).         *)
LEMMA PlaysForItsUser == DeviceInv => Q!PlaysForUser
  BY DEF DeviceInv, PluginTypes, ThreadKnows, FakeKnows, Q!PlaysForUser, Q!Runs

LEMMA PluginTyped == DeviceInv => Q!TypeOK
  BY DEF DeviceInv, PluginTypes, Q!TypeOK, Mains, Places

(* What was read is what was written and what is left, which is still in   *)
(* the buffer, as it never holds more than a value and seven bits.         *)
Kept ==
  /\ buffer = [from |-> buffer.from, to |-> 8 * raw]
  /\ 8 * raw = unpacked * vw + bitsIn
  /\ bitsIn < vw + 8
  /\ buffer.from = 0 \/ buffer.from = buffer.to - 32

UnpackInv == U!TypeOK /\ Kept /\ U!Unpacked

LEMMA UnpackInit == U!Init => UnpackInv
  <1> SUFFICES ASSUME U!Init PROVE UnpackInv OBVIOUS
  <1>1. vw \in 8 .. 25 /\ count \in Nat BY UnpackAssumption DEF U!Init
  <1>2. 0 * vw = 0 /\ count * vw >= 0 BY <1>1
  <1>3. U!TypeOK BY <1>1 DEF U!Init, U!TypeOK
  <1>4. Kept BY <1>1, <1>2 DEF U!Init, Kept
  <1>5. U!Unpacked BY <1>1, <1>2 DEF U!Init, U!Unpacked
  <1> QED BY <1>3, <1>4, <1>5 DEF UnpackInv

LEMMA Product ==
  ASSUME NEW a \in Nat, NEW b \in Nat, NEW w \in Nat, a < b
  PROVE  a * w + w =< b * w /\ (a + 1) * w = a * w + w /\ a * w \in Nat /\ b * w \in Nat
  <1>1. PICK d \in Nat : b = a + 1 + d
    <2>1. b - a - 1 \in Nat /\ b = a + 1 + (b - a - 1) OBVIOUS
    <2> QED BY <2>1
  <1>2. d * w \in Nat /\ a * w \in Nat OBVIOUS
  <1>3. b * w = a * w + w + d * w BY <1>1
  <1> QED BY <1>2, <1>3

LEMMA UnpackStep == UnpackInv /\ [U!Next]_U!vars => UnpackInv'
  <1> SUFFICES ASSUME UnpackInv, [U!Next]_U!vars PROVE UnpackInv' OBVIOUS
  <1> USE DEF UnpackInv
  <1>0. /\ vw \in 8 .. 25 /\ count \in Nat /\ raw \in Nat /\ bitsIn \in Nat /\ unpacked \in 0 .. count
        /\ eight \in BOOLEAN /\ buffer.from \in Nat /\ buffer.to = 8 * raw
    BY UnpackAssumption DEF U!TypeOK, Kept
  <1>1. CASE U!Read
    <2> USE <1>1 DEF U!Read, U!Larger
    <2>1. unpacked * vw + vw =< count * vw /\ unpacked * vw \in Nat /\ count * vw \in Nat
      BY <1>0, Product
    <2>2. buffer' = [from |-> buffer'.from, to |-> 8 * raw']
      BY <1>0
    <2>3. buffer'.from = 0 \/ buffer'.from = buffer'.to - 32 BY <1>0 DEF Kept
    <2>4. buffer'.from \in Nat BY <1>0
    <2>5. Kept' BY <1>0, <2>1, <2>2, <2>3 DEF Kept
    <2>6. U!TypeOK' BY <1>0, <2>2, <2>4 DEF U!TypeOK
    <2>7. 8 * raw' < count' * vw' + 8 BY <1>0, <2>1 DEF Kept
    <2>8. U!Unpacked' BY <2>7 DEF U!Unpacked
    <2> QED BY <2>5, <2>6, <2>8
  <1>2. CASE U!Write
    <2> USE <1>2 DEF U!Write
    <2>1. (unpacked + 1) * vw = unpacked * vw + vw /\ unpacked * vw \in Nat BY <1>0, Product
    <2>2. U!TypeOK' BY <1>0 DEF U!TypeOK
    <2>3. Kept' BY <1>0, <2>1 DEF Kept
    <2>4. buffer.to - bitsIn = unpacked * vw BY <1>0, <2>1 DEF Kept
    <2>5. buffer.from =< buffer.to - bitsIn BY <1>0, <2>1, <2>4 DEF Kept
    <2>6. pixel' = [from |-> unpacked * vw,
                    to |-> IF eight THEN unpacked * vw + 8 ELSE unpacked * vw + vw]
      BY <1>0, <2>1, <2>4, <2>5 DEF U!Bits, U!Larger
    <2>7. unpacked' - 1 = unpacked BY <1>0
    <2>8. U!Unpacked' BY <1>0, <2>1, <2>6, <2>7 DEF U!Unpacked
    <2> QED BY <2>2, <2>3, <2>8
  <1>3. CASE UNCHANGED U!vars
    BY <1>3 DEF U!vars, U!TypeOK, Kept, U!Unpacked
  <1> QED BY <1>1, <1>2, <1>3 DEF U!Next

LEMMA BayerCardinality == ASSUME NEW S PROVE Y!Cardinality(S) = Cardinality(S)
  BY DEF Cardinality, Y!Cardinality

(* What an average of values is made of.                                   *)
Is(p, q) == IF p = q THEN 1 ELSE 0
Halves(p, q, r) == 2 * (Is(p, r) + Is(q, r))
Quarters(p, q, s, t, r) == Is(p, r) + Is(q, r) + Is(s, r) + Is(t, r)
Quartered(p, q, s, t) == [r \in {p, q, s, t} |-> Quarters(p, q, s, t, r)]
In(n, G) == IF n \in G THEN 1 ELSE 0

LEMMA OfTwo ==
  ASSUME NEW p, NEW q
  PROVE  /\ DOMAIN Y!Average(Y!At(p), Y!At(q)) = {p, q}
         /\ \A r : Y!Weight(Y!Average(Y!At(p), Y!At(q)), r) = Halves(p, q, r)
         /\ \A r \in {p, q} : Y!Average(Y!At(p), Y!At(q))[r] = Halves(p, q, r)
  <1> DEFINE v == Y!Average(Y!At(p), Y!At(q))
  <1>1. /\ \A r : Y!Weight(Y!At(p), r) = IF r = p THEN 4 ELSE 0
        /\ \A r : Y!Weight(Y!At(q), r) = IF r = q THEN 4 ELSE 0
    BY DEF Y!Weight, Y!At
  <1>2. v = [r \in {p, q} |-> (Y!Weight(Y!At(p), r) + Y!Weight(Y!At(q), r)) \div 2]
    <2>1. DOMAIN Y!At(p) \cup DOMAIN Y!At(q) = {p, q} BY DEF Y!At
    <2> QED BY <2>1 DEF Y!Average
  <1> HIDE DEF v
  <1>3. \A r \in {p, q} : v[r] = Halves(p, q, r)
    <2> SUFFICES ASSUME NEW r \in {p, q} PROVE v[r] = Halves(p, q, r) OBVIOUS
    <2>1. v[r] = (Y!Weight(Y!At(p), r) + Y!Weight(Y!At(q), r)) \div 2 BY <1>2
    <2>2. CASE p = q BY <1>1, <2>1, <2>2 DEF Is, Halves
    <2>3. CASE p # q /\ r = p BY <1>1, <2>1, <2>3 DEF Is, Halves
    <2>4. CASE p # q /\ r = q BY <1>1, <2>1, <2>4 DEF Is, Halves
    <2> QED BY <2>2, <2>3, <2>4
  <1>4. DOMAIN v = {p, q} BY <1>2
  <1>5. \A r : Y!Weight(v, r) = Halves(p, q, r)
    <2> SUFFICES ASSUME NEW r PROVE Y!Weight(v, r) = Halves(p, q, r) OBVIOUS
    <2>1. CASE r \in {p, q} BY <1>3, <1>4, <2>1 DEF Y!Weight
    <2>2. CASE r \notin {p, q} BY <1>4, <2>2 DEF Y!Weight, Is, Halves
    <2> QED BY <2>1, <2>2
  <1> QED BY <1>3, <1>4, <1>5 DEF v

LEMMA OfFour ==
  ASSUME NEW p, NEW q, NEW s, NEW t
  PROVE  Y!Average(Y!Average(Y!At(p), Y!At(q)), Y!Average(Y!At(s), Y!At(t)))
           = Quartered(p, q, s, t)
  <1> DEFINE a == Y!Average(Y!At(p), Y!At(q))
             b == Y!Average(Y!At(s), Y!At(t))
             v == Y!Average(a, b)
  <1>1. /\ DOMAIN a = {p, q} /\ DOMAIN b = {s, t}
        /\ \A r : Y!Weight(a, r) = Halves(p, q, r)
        /\ \A r : Y!Weight(b, r) = Halves(s, t, r)
    <2>1. DOMAIN a = {p, q} /\ \A r : Y!Weight(a, r) = Halves(p, q, r) BY OfTwo
    <2>2. DOMAIN b = {s, t} /\ \A r : Y!Weight(b, r) = Halves(s, t, r) BY OfTwo
    <2> HIDE DEF a, b
    <2> QED BY <2>1, <2>2
  <1> HIDE DEF a, b, v
  <1>2. v = [r \in {p, q, s, t} |-> (Y!Weight(a, r) + Y!Weight(b, r)) \div 2]
    <2>1. DOMAIN a \cup DOMAIN b = {p, q, s, t} BY <1>1
    <2>2. v = Y!Average(a, b) BY DEF v
    <2> QED BY <2>1, <2>2 DEF Y!Average
  <1>3. \A r \in {p, q, s, t} :
          (Y!Weight(a, r) + Y!Weight(b, r)) \div 2 = Quarters(p, q, s, t, r)
    <2> TAKE r \in {p, q, s, t}
    <2> DEFINE i == Is(p, r) + Is(q, r)
               j == Is(s, r) + Is(t, r)
    <2>1. /\ Is(p, r) \in 0 .. 1 /\ Is(q, r) \in 0 .. 1
          /\ Is(s, r) \in 0 .. 1 /\ Is(t, r) \in 0 .. 1
      BY DEF Is
    <2>2. i \in Nat /\ j \in Nat /\ i + j = Quarters(p, q, s, t, r)
      BY <2>1 DEF Quarters
    <2>3. Y!Weight(a, r) = 2 * i /\ Y!Weight(b, r) = 2 * j BY <1>1 DEF Halves
    <2> HIDE DEF i, j
    <2>4. (2 * i + 2 * j) \div 2 = i + j BY <2>2
    <2> QED BY <2>2, <2>3, <2>4
  <1>4. v = [r \in {p, q, s, t} |-> Quarters(p, q, s, t, r)] BY <1>2, <1>3
  <1> QED BY <1>4 DEF v, a, b, Quartered

(* How many of a few are in a set.                                         *)
LEMMA Counted1 ==
  ASSUME NEW T, IsFiniteSet(T), NEW a, a \notin T, NEW G
  PROVE  /\ Cardinality(G \cap (T \cup {a})) = Cardinality(G \cap T) + In(a, G)
         /\ IsFiniteSet(T \cup {a}) /\ Cardinality(G \cap T) \in Nat
  <1>1. IsFiniteSet(G \cap T) /\ Cardinality(G \cap T) \in Nat BY FS_Subset, FS_CardinalityType
  <1>2. IsFiniteSet(T \cup {a}) BY FS_AddElement
  <1>3. CASE a \in G
    <2>1. G \cap (T \cup {a}) = (G \cap T) \cup {a} /\ a \notin G \cap T BY <1>3
    <2>2. Cardinality((G \cap T) \cup {a}) = Cardinality(G \cap T) + 1 BY <1>1, <2>1, FS_AddElement
    <2> QED BY <1>1, <1>2, <1>3, <2>1, <2>2 DEF In
  <1>4. CASE a \notin G
    <2>1. G \cap (T \cup {a}) = G \cap T BY <1>4
    <2>2. In(a, G) = 0 BY <1>4 DEF In
    <2>3. Cardinality(G \cap T) + 0 = Cardinality(G \cap T) BY <1>1
    <2> QED BY <1>1, <1>2, <2>1, <2>2, <2>3
  <1> QED BY <1>3, <1>4

LEMMA CountedTwo ==
  ASSUME NEW a, NEW b, a # b, NEW G
  PROVE  Cardinality(G \cap {a, b}) = In(a, G) + In(b, G)
  <1>1. IsFiniteSet({}) /\ Cardinality({}) = 0 BY FS_EmptySet
  <1>2. G \cap {} = {} /\ {} \cup {a} = {a} /\ {a} \cup {b} = {a, b} OBVIOUS
  <1>3. /\ Cardinality(G \cap ({} \cup {a})) = Cardinality(G \cap {}) + In(a, G)
        /\ IsFiniteSet({} \cup {a})
    BY <1>1, Counted1
  <1>4. IsFiniteSet({a}) BY <1>2, <1>3
  <1>5. Cardinality(G \cap ({a} \cup {b})) = Cardinality(G \cap {a}) + In(b, G)
    BY <1>4, Counted1
  <1>6. Cardinality(G \cap {a}) = 0 + In(a, G) BY <1>1, <1>2, <1>3
  <1>7. Cardinality(G \cap {a, b}) = Cardinality(G \cap {a}) + In(b, G) BY <1>2, <1>5
  <1> QED BY <1>6, <1>7 DEF In

LEMMA CountedFour ==
  ASSUME NEW a, NEW b, NEW c, NEW d, a # b, c \notin {a, b}, d \notin {a, b, c}, NEW G
  PROVE  Cardinality(G \cap {a, b, c, d}) = In(a, G) + In(b, G) + In(c, G) + In(d, G)
  <1>1. IsFiniteSet({a, b})
    <2>1. {a, b} = {a} \cup {b} OBVIOUS
    <2>2. IsFiniteSet({a}) BY FS_Singleton
    <2>3. IsFiniteSet({a} \cup {b}) BY <2>2, FS_AddElement
    <2> QED BY <2>1, <2>3
  <1>2. {a, b} \cup {c} = {a, b, c} /\ {a, b, c} \cup {d} = {a, b, c, d} OBVIOUS
  <1>3. /\ Cardinality(G \cap ({a, b} \cup {c})) = Cardinality(G \cap {a, b}) + In(c, G)
        /\ IsFiniteSet({a, b} \cup {c})
    BY <1>1, Counted1
  <1>4. IsFiniteSet({a, b, c}) BY <1>2, <1>3
  <1>5. Cardinality(G \cap ({a, b, c} \cup {d})) = Cardinality(G \cap {a, b, c}) + In(d, G)
    BY <1>4, Counted1
  <1>6. Cardinality(G \cap {a, b, c, d}) = Cardinality(G \cap {a, b, c}) + In(d, G)
    BY <1>2, <1>5
  <1>7. Cardinality(G \cap {a, b, c}) = Cardinality(G \cap {a, b}) + In(c, G) BY <1>2, <1>3
  <1>8. Cardinality(G \cap {a, b}) = In(a, G) + In(b, G) BY CountedTwo
  <1> QED BY <1>6, <1>7, <1>8

(* The neighbours of a position that have a colour.                        *)
Around(l, k, c) ==
  {n \in (l - 1 .. l + 1) \X (k - 1 .. k + 1) :
     Y!Colour(Y!Mirror(n[1], Y!Lines), Y!Mirror(n[2], Y!Columns)) = c}
Sides(l, k) == {<<l, k - 1>>, <<l, k + 1>>}
Ends(l, k) == {<<l - 1, k>>, <<l + 1, k>>}
Corners(l, k) == {<<l - 1, k - 1>>, <<l + 1, k - 1>>, <<l - 1, k + 1>>, <<l + 1, k + 1>>}

LEMMA SizeIs ==
  ASSUME size \in Sizes
  PROVE  /\ Y!Columns \in Nat /\ Y!Lines \in Nat /\ Y!Columns >= 2 /\ Y!Lines >= 4
         /\ Y!Columns % 2 = 0 /\ Y!Lines % 2 = 0
  BY BayerAssumption DEF Y!Columns, Y!Lines

LEMMA MirrorIs ==
  ASSUME NEW n \in Nat, n >= 2, n % 2 = 0, NEW i \in -1 .. n
  PROVE  /\ Y!Mirror(i, n) \in 0 .. n - 1 /\ Y!Mirror(i, n) % 2 = i % 2
         /\ i \in 0 .. n - 1 => Y!Mirror(i, n) = i
  <1>1. CASE i = -1
    <2>1. i \in Int /\ i + 1 = 0 /\ i < 0 BY <1>1
    <2>2. i % 2 = 1 BY <2>1
    <2>3. Y!Mirror(i, n) = 1 /\ i \notin 0 .. n - 1 BY <2>1 DEF Y!Mirror
    <2>4. 1 \in 0 .. n - 1 /\ 1 % 2 = 1 OBVIOUS
    <2> QED BY <2>2, <2>3, <2>4
  <1>2. CASE i = n BY <1>2 DEF Y!Mirror
  <1>3. CASE i \in 0 .. n - 1 BY <1>3 DEF Y!Mirror
  <1> QED BY <1>1, <1>2, <1>3

LEMMA ColourIs ==
  ASSUME NEW i \in Int, NEW j \in Int
  PROVE  Y!Colour(i, j) = IF i % 2 = j % 2 THEN 2 ELSE IF i % 2 = 0 THEN 1 ELSE 3
  <1>1. (i + j) % 2 = 0 <=> i % 2 = j % 2 OBVIOUS
  <1> QED BY <1>1 DEF Y!Colour

LEMMA AroundIs ==
  ASSUME size \in Sizes, NEW l \in 0 .. Y!Lines - 1, NEW k \in 0 .. Y!Columns - 1
  PROVE  /\ l % 2 = 0 /\ k % 2 = 0 =>
              /\ Y!Colour(l, k) = 2 /\ Around(l, k, 1) = Sides(l, k) /\ Around(l, k, 3) = Ends(l, k)
         /\ l % 2 = 0 /\ k % 2 = 1 =>
              /\ Y!Colour(l, k) = 1 /\ Around(l, k, 2) = Sides(l, k) \cup Ends(l, k)
              /\ Around(l, k, 3) = Corners(l, k)
         /\ l % 2 = 1 /\ k % 2 = 0 =>
              /\ Y!Colour(l, k) = 3 /\ Around(l, k, 2) = Sides(l, k) \cup Ends(l, k)
              /\ Around(l, k, 1) = Corners(l, k)
         /\ l % 2 = 1 /\ k % 2 = 1 =>
              /\ Y!Colour(l, k) = 2 /\ Around(l, k, 1) = Ends(l, k) /\ Around(l, k, 3) = Sides(l, k)
         /\ l % 2 \in {0, 1} /\ k % 2 \in {0, 1}
  <1> DEFINE p == l % 2
             q == k % 2
             Kind(i, j) == IF i % 2 = j % 2 THEN 2 ELSE IF i % 2 = 0 THEN 1 ELSE 3
             N == {l - 1, l, l + 1} \X {k - 1, k, k + 1}
  <1>0. /\ l \in Nat /\ k \in Nat /\ p \in {0, 1} /\ q \in {0, 1}
        /\ Y!Columns \in Nat /\ Y!Lines \in Nat /\ Y!Columns >= 2 /\ Y!Lines >= 4
        /\ Y!Columns % 2 = 0 /\ Y!Lines % 2 = 0
    BY SizeIs
  <1>1. l - 1 .. l + 1 = {l - 1, l, l + 1} /\ k - 1 .. k + 1 = {k - 1, k, k + 1} BY <1>0
  <1>2. /\ (l - 1) % 2 = 1 - p /\ (l + 1) % 2 = 1 - p
        /\ (k - 1) % 2 = 1 - q /\ (k + 1) % 2 = 1 - q
    BY <1>0
  <1>3. ASSUME NEW i \in {l - 1, l, l + 1}, NEW j \in {k - 1, k, k + 1}
        PROVE  Y!Colour(Y!Mirror(i, Y!Lines), Y!Mirror(j, Y!Columns)) = Kind(i, j)
    <2>1. i \in -1 .. Y!Lines /\ j \in -1 .. Y!Columns BY <1>0
    <2>2. Y!Mirror(i, Y!Lines) \in Int /\ Y!Mirror(i, Y!Lines) % 2 = i % 2 BY <1>0, <2>1, MirrorIs
    <2>3. Y!Mirror(j, Y!Columns) \in Int /\ Y!Mirror(j, Y!Columns) % 2 = j % 2 BY <1>0, <2>1,
        MirrorIs
    <2> QED BY <2>2, <2>3, ColourIs
  <1>4. Y!Colour(l, k) = Kind(l, k) BY <1>0, ColourIs
  <1>5. \A c : Around(l, k, c) = {n \in N : Kind(n[1], n[2]) = c}
    <2> SUFFICES ASSUME NEW c PROVE Around(l, k, c) = {n \in N : Kind(n[1], n[2]) = c} OBVIOUS
    <2>1. \A n \in N : Y!Colour(Y!Mirror(n[1], Y!Lines), Y!Mirror(n[2], Y!Columns)) = Kind(n[1], n[2])
      BY <1>3
    <2> HIDE DEF Kind
    <2> QED BY <1>1, <2>1 DEF Around
  <1>6. N = {<<l - 1, k - 1>>, <<l - 1, k>>, <<l - 1, k + 1>>, <<l, k - 1>>, <<l, k>>, <<l, k + 1>>,
             <<l + 1, k - 1>>, <<l + 1, k>>, <<l + 1, k + 1>>}
    OBVIOUS
  <1>7. /\ Kind(l - 1, k - 1) = Kind(l + 1, k + 1) /\ Kind(l - 1, k + 1) = Kind(l + 1, k + 1)
        /\ Kind(l + 1, k - 1) = Kind(l + 1, k + 1)
        /\ Kind(l, k - 1) = Kind(l, k + 1) /\ Kind(l - 1, k) = Kind(l + 1, k)
    BY <1>2
  <1>8. /\ p = 0 /\ q = 0 => Kind(l, k) = 2 /\ Kind(l, k + 1) = 1 /\ Kind(l + 1, k) = 3 /\ Kind(l + 1, k + 1) = 2
        /\ p = 0 /\ q = 1 => Kind(l, k) = 1 /\ Kind(l, k + 1) = 2 /\ Kind(l + 1, k) = 2 /\ Kind(l + 1, k + 1) = 3
        /\ p = 1 /\ q = 0 => Kind(l, k) = 3 /\ Kind(l, k + 1) = 2 /\ Kind(l + 1, k) = 2 /\ Kind(l + 1, k + 1) = 1
        /\ p = 1 /\ q = 1 => Kind(l, k) = 2 /\ Kind(l, k + 1) = 3 /\ Kind(l + 1, k) = 1 /\ Kind(l + 1, k + 1) = 2
    BY <1>2
  <1> HIDE DEF Kind, N
  <1>9. \A c : \A n : n \in Around(l, k, c) <=>
                  \/ n \in Corners(l, k) /\ Kind(l + 1, k + 1) = c
                  \/ n \in Sides(l, k) /\ Kind(l, k + 1) = c
                  \/ n \in Ends(l, k) /\ Kind(l + 1, k) = c
                  \/ n = <<l, k>> /\ Kind(l, k) = c
    <2> SUFFICES ASSUME NEW c, NEW n
                 PROVE  n \in Around(l, k, c) <=>
                          \/ n \in Corners(l, k) /\ Kind(l + 1, k + 1) = c
                          \/ n \in Sides(l, k) /\ Kind(l, k + 1) = c
                          \/ n \in Ends(l, k) /\ Kind(l + 1, k) = c
                          \/ n = <<l, k>> /\ Kind(l, k) = c
      OBVIOUS
    <2>1. n \in Around(l, k, c) <=> n \in N /\ Kind(n[1], n[2]) = c BY <1>5
    <2>2. n \in N <=> n \in Corners(l, k) \/ n \in Sides(l, k) \/ n \in Ends(l, k) \/ n = <<l, k>>
      BY <1>6 DEF Corners, Sides, Ends
    <2>3. n \in Corners(l, k) => Kind(n[1], n[2]) = Kind(l + 1, k + 1) BY <1>7 DEF Corners
    <2>4. n \in Sides(l, k) => Kind(n[1], n[2]) = Kind(l, k + 1) BY <1>7 DEF Sides
    <2>5. n \in Ends(l, k) => Kind(n[1], n[2]) = Kind(l + 1, k) BY <1>7 DEF Ends
    <2>6. n = <<l, k>> => Kind(n[1], n[2]) = Kind(l, k) OBVIOUS
    <2> QED BY <2>1, <2>2, <2>3, <2>4, <2>5, <2>6
  <1>10. CASE p = 0 /\ q = 0
    <2>1. Kind(l, k) = 2 /\ Kind(l, k + 1) = 1 /\ Kind(l + 1, k) = 3 /\ Kind(l + 1, k + 1) = 2
      BY <1>8, <1>10
    <2>2. \A n : n \in Around(l, k, 1) <=> n \in Sides(l, k) BY <1>9, <2>1
    <2>3. \A n : n \in Around(l, k, 3) <=> n \in Ends(l, k) BY <1>9, <2>1
    <2>4. Around(l, k, 1) = Sides(l, k) BY <2>2
    <2>5. Around(l, k, 3) = Ends(l, k) BY <2>3
    <2> QED BY <1>4, <2>1, <2>4, <2>5, <1>10
  <1>11. CASE p = 0 /\ q = 1
    <2>1. Kind(l, k) = 1 /\ Kind(l, k + 1) = 2 /\ Kind(l + 1, k) = 2 /\ Kind(l + 1, k + 1) = 3
      BY <1>8, <1>11
    <2>2. \A n : n \in Around(l, k, 2) <=> n \in Sides(l, k) \/ n \in Ends(l, k) BY <1>9, <2>1
    <2>3. \A n : n \in Around(l, k, 3) <=> n \in Corners(l, k) BY <1>9, <2>1
    <2>4. Around(l, k, 2) = Sides(l, k) \cup Ends(l, k) BY <2>2
    <2>5. Around(l, k, 3) = Corners(l, k) BY <2>3
    <2> QED BY <1>4, <2>1, <2>4, <2>5, <1>11
  <1>12. CASE p = 1 /\ q = 0
    <2>1. Kind(l, k) = 3 /\ Kind(l, k + 1) = 2 /\ Kind(l + 1, k) = 2 /\ Kind(l + 1, k + 1) = 1
      BY <1>8, <1>12
    <2>2. \A n : n \in Around(l, k, 1) <=> n \in Corners(l, k) BY <1>9, <2>1
    <2>3. \A n : n \in Around(l, k, 2) <=> n \in Sides(l, k) \/ n \in Ends(l, k) BY <1>9, <2>1
    <2>4. Around(l, k, 1) = Corners(l, k) BY <2>2
    <2>5. Around(l, k, 2) = Sides(l, k) \cup Ends(l, k) BY <2>3
    <2> QED BY <1>4, <2>1, <2>4, <2>5, <1>12
  <1>13. CASE p = 1 /\ q = 1
    <2>1. Kind(l, k) = 2 /\ Kind(l, k + 1) = 3 /\ Kind(l + 1, k) = 1 /\ Kind(l + 1, k + 1) = 2
      BY <1>8, <1>13
    <2>2. \A n : n \in Around(l, k, 1) <=> n \in Ends(l, k) BY <1>9, <2>1
    <2>3. \A n : n \in Around(l, k, 3) <=> n \in Sides(l, k) BY <1>9, <2>1
    <2>4. Around(l, k, 1) = Ends(l, k) BY <2>2
    <2>5. Around(l, k, 3) = Sides(l, k) BY <2>3
    <2> QED BY <1>4, <2>1, <2>4, <2>5, <1>13
  <1> QED BY <1>0, <1>10, <1>11, <1>12, <1>13

(* The average of the values at some positions.                            *)
Means(T) ==
  [p \in {Y!Place(n) : n \in T} |->
     (4 * Cardinality({n \in T : Y!Place(n) = p})) \div Cardinality(T)]

LEMMA DemosaicIs ==
  ASSUME NEW l, NEW k, NEW c
  PROVE  Y!Demosaic(l, k, c) = Means(IF Y!Colour(l, k) = c THEN {<<l, k>>} ELSE Around(l, k, c))
  BY BayerCardinality DEF Y!Demosaic, Means, Around

LEMMA MeansOne ==
  ASSUME NEW a
  PROVE  Means({a}) = Y!At(Y!Place(a))
  <1>1. Cardinality({a}) = 1 BY FS_Singleton
  <1>2. {Y!Place(n) : n \in {a}} = {Y!Place(a)} OBVIOUS
  <1>3. \A p \in {Y!Place(a)} : (4 * Cardinality({n \in {a} : Y!Place(n) = p})) \div Cardinality({a}) = 4
    <2> TAKE p \in {Y!Place(a)}
    <2>1. {n \in {a} : Y!Place(n) = p} = {a} OBVIOUS
    <2>2. (4 * 1) \div 1 = 4 OBVIOUS
    <2> QED BY <1>1, <2>1, <2>2
  <1> QED BY <1>2, <1>3 DEF Means, Y!At

LEMMA MeansTwo ==
  ASSUME NEW a, NEW b, a # b
  PROVE  Means({a, b}) = Y!Average(Y!At(Y!Place(a)), Y!At(Y!Place(b)))
  <1> DEFINE v == Y!Average(Y!At(Y!Place(a)), Y!At(Y!Place(b)))
             places == {Y!Place(a), Y!Place(b)}
             G(p) == {n \in {a, b} : Y!Place(n) = p}
  <1>0. /\ v = [p \in DOMAIN v |-> v[p]] /\ DOMAIN v = places
        /\ \A r \in places : v[r] = Halves(Y!Place(a), Y!Place(b), r)
    BY OfTwo DEF Y!Average
  <1>1. Cardinality({a, b}) = 2
    <2>1. \A T : T \cap {a, b} = {a, b} => Cardinality({a, b}) = In(a, T) + In(b, T)
      BY CountedTwo
    <2> QED BY <2>1 DEF In
  <1>2. {Y!Place(n) : n \in {a, b}} = places OBVIOUS
  <1>3. \A p \in places : (4 * Cardinality(G(p))) \div 2 = Halves(Y!Place(a), Y!Place(b), p)
    <2> TAKE p \in places
    <2>1. G(p) \cap {a, b} = G(p) OBVIOUS
    <2>2. In(a, G(p)) = Is(Y!Place(a), p) /\ In(b, G(p)) = Is(Y!Place(b), p) BY DEF In, Is
    <2>3. Cardinality(G(p) \cap {a, b}) = In(a, G(p)) + In(b, G(p)) BY CountedTwo
    <2>4. PICK i \in 0 .. 1, j \in 0 .. 1 : i = Is(Y!Place(a), p) /\ j = Is(Y!Place(b), p) BY DEF Is
    <2>5. Cardinality(G(p)) = i + j BY <2>1, <2>2, <2>3, <2>4
    <2>6. (4 * (i + j)) \div 2 = 2 * (i + j) OBVIOUS
    <2> QED BY <2>4, <2>5, <2>6 DEF Halves
  <1>4. Means({a, b}) = [p \in places |-> (4 * Cardinality(G(p))) \div 2] BY <1>1, <1>2 DEF Means
  <1> HIDE DEF v, places, G
  <1>5. Means({a, b}) = v BY <1>0, <1>3, <1>4
  <1> QED BY <1>5 DEF v

LEMMA MeansFour ==
  ASSUME NEW a, NEW b, NEW c, NEW d, a # b, c \notin {a, b}, d \notin {a, b, c}
  PROVE  Means({a, b, c, d}) = Y!Average(Y!Average(Y!At(Y!Place(a)), Y!At(Y!Place(b))),
                                       Y!Average(Y!At(Y!Place(c)), Y!At(Y!Place(d))))
  <1> DEFINE T == {a, b, c, d}
             places == {Y!Place(a), Y!Place(b), Y!Place(c), Y!Place(d)}
             G(p) == {n \in T : Y!Place(n) = p}
             share(p) == Quarters(Y!Place(a), Y!Place(b), Y!Place(c), Y!Place(d), p)
  <1>1. Cardinality(T) = 4
    <2>1. T \cap T = T /\ In(a, T) = 1 /\ In(b, T) = 1 /\ In(c, T) = 1 /\ In(d, T) = 1 BY DEF In
    <2>2. Cardinality(T \cap {a, b, c, d}) = In(a, T) + In(b, T) + In(c, T) + In(d, T)
      BY CountedFour
    <2> HIDE DEF T
    <2>3. Cardinality(T \cap T) = In(a, T) + In(b, T) + In(c, T) + In(d, T) BY <2>2 DEF T
    <2>4. In(a, T) + In(b, T) + In(c, T) + In(d, T) = 4 BY <2>1
    <2>5. Cardinality(T \cap T) = Cardinality(T) BY <2>1
    <2> QED BY <2>3, <2>4, <2>5, Zenon
  <1>2. {Y!Place(n) : n \in T} = places OBVIOUS
  <1>3. \A p \in places : (4 * Cardinality(G(p))) \div 4 = share(p)
    <2> TAKE p \in places
    <2>1. G(p) \cap {a, b, c, d} = G(p) OBVIOUS
    <2>2. /\ In(a, G(p)) = Is(Y!Place(a), p) /\ In(b, G(p)) = Is(Y!Place(b), p)
          /\ In(c, G(p)) = Is(Y!Place(c), p) /\ In(d, G(p)) = Is(Y!Place(d), p)
      BY DEF In, Is
    <2>3. Cardinality(G(p) \cap {a, b, c, d})
            = In(a, G(p)) + In(b, G(p)) + In(c, G(p)) + In(d, G(p))
      BY CountedFour
    <2>4. Cardinality(G(p)) = share(p) BY <2>1, <2>2, <2>3 DEF Quarters
    <2>5. share(p) \in Nat
      <3>1. \A q : Is(q, p) \in 0 .. 1 BY DEF Is
      <3>2. /\ Is(Y!Place(a), p) \in 0 .. 1 /\ Is(Y!Place(b), p) \in 0 .. 1
            /\ Is(Y!Place(c), p) \in 0 .. 1 /\ Is(Y!Place(d), p) \in 0 .. 1
        BY <3>1
      <3> QED BY <3>2 DEF Quarters
    <2>6. \A i \in Nat : (4 * i) \div 4 = i OBVIOUS
    <2> HIDE DEF share, G
    <2> QED BY <2>4, <2>5, <2>6
  <1>4. Means(T) = [p \in places |-> (4 * Cardinality(G(p))) \div 4]
    <2>1. Means(T) = [p \in places |-> (4 * Cardinality(G(p))) \div Cardinality(T)] BY <1>2
        DEF Means
    <2> QED BY <1>1, <2>1
  <1>5. Y!Average(Y!Average(Y!At(Y!Place(a)), Y!At(Y!Place(b))), Y!Average(Y!At(Y!Place(c)), Y!At(Y!Place(d))))
          = [p \in places |-> share(p)]
    <2>1. Y!Average(Y!Average(Y!At(Y!Place(a)), Y!At(Y!Place(b))), Y!Average(Y!At(Y!Place(c)), Y!At(Y!Place(d))))
            = Quartered(Y!Place(a), Y!Place(b), Y!Place(c), Y!Place(d))
      BY OfFour
    <2> QED BY <2>1 DEF Quartered
  <1> HIDE DEF share, G, places
  <1>6. Means(T) = [p \in places |-> share(p)] BY <1>3, <1>4
  <1> HIDE DEF T
  <1> QED BY <1>5, <1>6 DEF T

(* The sum of the values above and below a position.                       *)
Over(l, k) == Y!Average(Y!At(Y!Place(<<l - 1, k>>)), Y!At(Y!Place(<<l + 1, k>>)))
Row(i) == Y!Columns * Y!Mirror(i, Y!Lines)

(* Three values of the line and three of the lines around it give the      *)
(* pixel in the middle.                                                    *)
LEMMA PixelIs ==
  ASSUME size \in Sizes, NEW l \in 0 .. Y!Lines - 1, NEW k \in 0 .. Y!Columns - 1, y = l, x = k,
         NEW h, h[1] = Y!At(Y!Place(<<l, k - 1>>)), h[2] = Y!At(Y!Place(<<l, k>>)),
                h[3] = Y!At(Y!Place(<<l, k + 1>>)),
         NEW v, v[1] = Over(l, k - 1), v[2] = Over(l, k), v[3] = Over(l, k + 1)
  PROVE  \A c \in 1 .. 3 : Y!Pixel(h, v)[c] = Y!Demosaic(l, k, c)
  <1> DEFINE p == l % 2
             q == k % 2
             hSum == Y!Average(h[1], h[3])
             green == Y!Average(hSum, v[2])
             diagonal == Y!Average(v[1], v[3])
  <1>0. l \in Nat /\ k \in Nat /\ p \in {0, 1} /\ q \in {0, 1} BY AroundIs, SizeIs
  <1>1. Y!Pixel(h, v) = CASE p = 0 /\ q = 0 -> <<hSum, h[2], v[2]>>
                        [] p = 0 /\ q = 1 -> <<h[2], green, diagonal>>
                        [] p = 1 /\ q = 0 -> <<diagonal, green, h[2]>>
                        [] OTHER          -> <<v[2], h[2], hSum>>
    BY DEF Y!Pixel
  <1>2. Means({<<l, k>>}) = h[2] BY MeansOne
  <1>3. Means(Sides(l, k)) = hSum
    <2>1. <<l, k - 1>> # <<l, k + 1>> BY <1>0
    <2>2. Means({<<l, k - 1>>, <<l, k + 1>>}) = Y!Average(Y!At(Y!Place(<<l, k - 1>>)), Y!At(Y!Place(<<l, k + 1>>)))
      BY <2>1, MeansTwo
    <2> QED BY <2>2 DEF Sides
  <1>4. Means(Ends(l, k)) = v[2]
    <2>1. <<l - 1, k>> # <<l + 1, k>> BY <1>0
    <2>2. Means({<<l - 1, k>>, <<l + 1, k>>}) = Y!Average(Y!At(Y!Place(<<l - 1, k>>)), Y!At(Y!Place(<<l + 1, k>>)))
      BY <2>1, MeansTwo
    <2> QED BY <2>2 DEF Ends, Over
  <1>5. Means(Sides(l, k) \cup Ends(l, k)) = green
    <2> DEFINE a == <<l, k - 1>>
               b == <<l, k + 1>>
               c == <<l - 1, k>>
               d == <<l + 1, k>>
    <2>1. a # b /\ c \notin {a, b} /\ d \notin {a, b, c} BY <1>0
    <2>2. Sides(l, k) \cup Ends(l, k) = {a, b, c, d} BY DEF Sides, Ends
    <2>3. green = Y!Average(Y!Average(Y!At(Y!Place(a)), Y!At(Y!Place(b))), Y!Average(Y!At(Y!Place(c)), Y!At(Y!Place(d))))
      BY DEF Over
    <2> HIDE DEF a, b, c, d, green
    <2>4. Means({a, b, c, d}) = green BY <2>1, <2>3, MeansFour
    <2> QED BY <2>2, <2>4
  <1>6. Means(Corners(l, k)) = diagonal
    <2> DEFINE a == <<l - 1, k - 1>>
               b == <<l + 1, k - 1>>
               c == <<l - 1, k + 1>>
               d == <<l + 1, k + 1>>
    <2>1. a # b /\ c \notin {a, b} /\ d \notin {a, b, c} BY <1>0
    <2>2. Corners(l, k) = {a, b, c, d} BY DEF Corners
    <2>3. diagonal = Y!Average(Y!Average(Y!At(Y!Place(a)), Y!At(Y!Place(b))), Y!Average(Y!At(Y!Place(c)), Y!At(Y!Place(d))))
      BY DEF Over
    <2> HIDE DEF a, b, c, d, diagonal
    <2>4. Means({a, b, c, d}) = diagonal BY <2>1, <2>3, MeansFour
    <2> QED BY <2>2, <2>4
  <1>7. ASSUME NEW c
        PROVE  /\ Y!Colour(l, k) = c => Y!Demosaic(l, k, c) = Means({<<l, k>>})
               /\ Y!Colour(l, k) # c => Y!Demosaic(l, k, c) = Means(Around(l, k, c))
    BY DemosaicIs
  <1> HIDE DEF hSum, green, diagonal
  <1>8. CASE p = 0 /\ q = 0
    <2>1. Y!Pixel(h, v) = <<hSum, h[2], v[2]>> BY <1>1, <1>8
    <2>2. /\ Y!Colour(l, k) = 2
          /\ Around(l, k, 1) = Sides(l, k)
          /\ Around(l, k, 3) = Ends(l, k)
      BY <1>8, AroundIs
    <2>3. Y!Demosaic(l, k, 1) = hSum
      <3>1. Y!Colour(l, k) # 1 BY <2>2
      <3>2. Y!Demosaic(l, k, 1) = Means(Around(l, k, 1)) BY <3>1, <1>7
      <3>3. Around(l, k, 1) = Sides(l, k) BY <2>2
      <3> QED BY <3>2, <3>3, <1>3
    <2>4. Y!Demosaic(l, k, 2) = h[2]
      <3>1. Y!Colour(l, k) = 2 BY <2>2
      <3>2. Y!Demosaic(l, k, 2) = Means({<<l, k>>}) BY <3>1, <1>7
      <3> QED BY <3>2, <1>2
    <2>5. Y!Demosaic(l, k, 3) = v[2]
      <3>1. Y!Colour(l, k) # 3 BY <2>2
      <3>2. Y!Demosaic(l, k, 3) = Means(Around(l, k, 3)) BY <3>1, <1>7
      <3>3. Around(l, k, 3) = Ends(l, k) BY <2>2
      <3> QED BY <3>2, <3>3, <1>4
    <2> QED BY <2>1, <2>3, <2>4, <2>5
  <1>9. CASE p = 0 /\ q = 1
    <2>1. Y!Pixel(h, v) = <<h[2], green, diagonal>> BY <1>1, <1>9
    <2>2. /\ Y!Colour(l, k) = 1
          /\ Around(l, k, 2) = Sides(l, k) \cup Ends(l, k)
          /\ Around(l, k, 3) = Corners(l, k)
      BY <1>9, AroundIs
    <2>3. Y!Demosaic(l, k, 1) = h[2]
      <3>1. Y!Colour(l, k) = 1 BY <2>2
      <3>2. Y!Demosaic(l, k, 1) = Means({<<l, k>>}) BY <3>1, <1>7
      <3> QED BY <3>2, <1>2
    <2>4. Y!Demosaic(l, k, 2) = green
      <3>1. Y!Colour(l, k) # 2 BY <2>2
      <3>2. Y!Demosaic(l, k, 2) = Means(Around(l, k, 2)) BY <3>1, <1>7
      <3>3. Around(l, k, 2) = Sides(l, k) \cup Ends(l, k) BY <2>2
      <3> QED BY <3>2, <3>3, <1>5
    <2>5. Y!Demosaic(l, k, 3) = diagonal
      <3>1. Y!Colour(l, k) # 3 BY <2>2
      <3>2. Y!Demosaic(l, k, 3) = Means(Around(l, k, 3)) BY <3>1, <1>7
      <3>3. Around(l, k, 3) = Corners(l, k) BY <2>2
      <3> QED BY <3>2, <3>3, <1>6
    <2> QED BY <2>1, <2>3, <2>4, <2>5
  <1>10. CASE p = 1 /\ q = 0
    <2>1. Y!Pixel(h, v) = <<diagonal, green, h[2]>> BY <1>1, <1>10
    <2>2. /\ Y!Colour(l, k) = 3
          /\ Around(l, k, 1) = Corners(l, k)
          /\ Around(l, k, 2) = Sides(l, k) \cup Ends(l, k)
      BY <1>10, AroundIs
    <2>3. Y!Demosaic(l, k, 1) = diagonal
      <3>1. Y!Colour(l, k) # 1 BY <2>2
      <3>2. Y!Demosaic(l, k, 1) = Means(Around(l, k, 1)) BY <3>1, <1>7
      <3>3. Around(l, k, 1) = Corners(l, k) BY <2>2
      <3> QED BY <3>2, <3>3, <1>6
    <2>4. Y!Demosaic(l, k, 2) = green
      <3>1. Y!Colour(l, k) # 2 BY <2>2
      <3>2. Y!Demosaic(l, k, 2) = Means(Around(l, k, 2)) BY <3>1, <1>7
      <3>3. Around(l, k, 2) = Sides(l, k) \cup Ends(l, k) BY <2>2
      <3> QED BY <3>2, <3>3, <1>5
    <2>5. Y!Demosaic(l, k, 3) = h[2]
      <3>1. Y!Colour(l, k) = 3 BY <2>2
      <3>2. Y!Demosaic(l, k, 3) = Means({<<l, k>>}) BY <3>1, <1>7
      <3> QED BY <3>2, <1>2
    <2> QED BY <2>1, <2>3, <2>4, <2>5
  <1>11. CASE p = 1 /\ q = 1
    <2>1. Y!Pixel(h, v) = <<v[2], h[2], hSum>> BY <1>1, <1>11
    <2>2. /\ Y!Colour(l, k) = 2
          /\ Around(l, k, 1) = Ends(l, k)
          /\ Around(l, k, 3) = Sides(l, k)
      BY <1>11, AroundIs
    <2>3. Y!Demosaic(l, k, 1) = v[2]
      <3>1. Y!Colour(l, k) # 1 BY <2>2
      <3>2. Y!Demosaic(l, k, 1) = Means(Around(l, k, 1)) BY <3>1, <1>7
      <3>3. Around(l, k, 1) = Ends(l, k) BY <2>2
      <3> QED BY <3>2, <3>3, <1>4
    <2>4. Y!Demosaic(l, k, 2) = h[2]
      <3>1. Y!Colour(l, k) = 2 BY <2>2
      <3>2. Y!Demosaic(l, k, 2) = Means({<<l, k>>}) BY <3>1, <1>7
      <3> QED BY <3>2, <1>2
    <2>5. Y!Demosaic(l, k, 3) = hSum
      <3>1. Y!Colour(l, k) # 3 BY <2>2
      <3>2. Y!Demosaic(l, k, 3) = Means(Around(l, k, 3)) BY <3>1, <1>7
      <3>3. Around(l, k, 3) = Sides(l, k) BY <2>2
      <3> QED BY <3>2, <3>3, <1>3
    <2> QED BY <2>1, <2>3, <2>4, <2>5
  <1> QED BY <1>0, <1>8, <1>9, <1>10, <1>11

(* A third value goes at the end of two.                                   *)
LEMMA AppendThird ==
  ASSUME NEW a, NEW b, NEW c
  PROVE  Append(<<a, b>>, c) = <<a, b, c>>
  <1> DEFINE S == {a, b, c}
             s == <<a, b>>
             t == <<a, b, c>>
             r == Append(s, c)
  <1>1. s \in Seq(S) /\ c \in S /\ Len(s) = 2 /\ s[1] = a /\ s[2] = b OBVIOUS
  <1>2. t \in Seq(S) /\ Len(t) = 3 /\ t[1] = a /\ t[2] = b /\ t[3] = c OBVIOUS
  <1> HIDE DEF S, s, t
  <1>3. /\ r \in Seq(S) /\ Len(r) = Len(s) + 1
        /\ \A i \in 1 .. Len(s) : r[i] = s[i]
        /\ r[Len(s) + 1] = c
    <2>1. r \in Seq(S) BY <1>1, AppendProperties, Zenon
    <2>2. Len(r) = Len(s) + 1 BY <1>1, AppendProperties, Zenon
    <2>3. ASSUME NEW i \in 1 .. Len(s) PROVE r[i] = s[i] BY <1>1, AppendProperties
    <2>4. r[Len(s) + 1] = c BY <1>1, AppendProperties, Zenon
    <2> QED BY <2>1, <2>2, <2>3, <2>4
  <1> HIDE DEF r
  <1>4. Len(r) = 3 /\ r[1] = a /\ r[2] = b /\ r[3] = c BY <1>1, <1>3
  <1>5. \A i \in 1 .. 3 : r[i] = t[i]
    <2>1. \A i \in 1 .. 3 : i = 1 \/ i = 2 \/ i = 3 OBVIOUS
    <2> QED BY <1>2, <1>4, <2>1
  <1>6. r = t BY <1>2, <1>3, <1>4, <1>5, SeqEqual
  <1> QED BY <1>6 DEF r, s, t

(* Where the pointers are, and what the shift-buffers hold: between two    *)
(* lines, and before each pixel.                                           *)
BayerTypes == Y!TypeOK /\ (x >= 0 => y < Y!Lines)
Between ==
  x = -1 => /\ curLine = Y!Columns * y
            /\ y < Y!Lines => nextLine = Y!Columns * y + Y!Columns
            /\ y = Y!Lines - 1 => prevLine = Y!Columns * y - Y!Columns
Along ==
  \A l \in 0 .. Y!Lines - 1, k \in 0 .. Y!Columns - 1 : y = l /\ x = k =>
    /\ prevLine = Row(l - 1) + k + 1 /\ curLine = Row(l) + k + 1 /\ nextLine = Row(l + 1) + k + 1
    /\ hVals = <<Y!At(Y!Place(<<l, k - 1>>)), Y!At(Y!Place(<<l, k>>))>>
    /\ vSums = <<Over(l, k - 1), Over(l, k)>>
PixelWritten ==
  rgb # <<>> => \E l \in 0 .. Y!Lines - 1, k \in 0 .. Y!Columns - 1 :
    /\ IF x > 0 THEN l = y /\ k = x - 1 ELSE l = y - 1 /\ k = Y!Columns - 1
    /\ \A c \in 1 .. 3 : rgb[c] = Y!Demosaic(l, k, c)
BayerInv == BayerTypes /\ Between /\ Along /\ PixelWritten

LEMMA PlaceIs ==
  ASSUME NEW i, NEW j
  PROVE  Y!Place(<<i, j>>) = Row(i) + Y!Mirror(j, Y!Columns)
  BY DEF Y!Place, Row

(* The lines of the frame follow each other.                               *)
LEMMA RowIs ==
  ASSUME size \in Sizes
  PROVE  /\ \A i \in 0 .. Y!Lines - 1 : /\ Row(i) = Y!Columns * i /\ Row(i) \in Nat
                                      /\ Row(i) + Y!Columns =< Y!Columns * Y!Lines
         /\ \A i \in Int : Y!Columns * (i + 1) = Y!Columns * i + Y!Columns
         /\ \A i \in Int : Y!Columns * (i - 1) = Y!Columns * i - Y!Columns
         /\ Row(-1) = Row(1) /\ Row(Y!Lines) = Row(Y!Lines - 2)
         /\ Y!Columns * Y!Lines \in Nat
  <1>0. /\ Y!Columns \in Nat /\ Y!Lines \in Nat /\ Y!Columns >= 2 /\ Y!Lines >= 4 BY SizeIs
  <1> DEFINE n == Y!Columns
             m == Y!Lines
  <1> HIDE DEF n, m
  <1>a. n \in Nat /\ m \in Nat /\ n >= 2 /\ m >= 4 BY <1>0 DEF n, m
  <1>1. \A i \in Int : n * (i + 1) = n * i + n /\ n * (i - 1) = n * i - n BY <1>a
  <1>2. \A i \in 0 .. m - 1 : n * i \in Nat /\ n * i + n =< n * m
    <2> TAKE i \in 0 .. m - 1
    <2>1. PICK d \in Nat : m = i + 1 + d
      <3>1. m - 1 - i \in Nat /\ m = i + 1 + (m - 1 - i) BY <1>a
      <3> QED BY <3>1
    <2>2. n * (i + 1 + d) = n * i + n + n * d BY <1>a, <2>1
    <2>3. \A e \in Nat : n * e \in Nat BY <1>a
    <2>4. n * i \in Nat /\ n * d \in Nat BY <2>3
    <2>5. n * m = n * i + n + n * d BY <2>1, <2>2
    <2> QED BY <2>4, <2>5, <1>a
  <1>3. n * m \in Nat BY <1>a
  <1>4. \A i \in 0 .. m - 1 : Y!Mirror(i, m) = i BY <1>a DEF Y!Mirror
  <1>5. Y!Mirror(-1, m) = 1 /\ Y!Mirror(1, m) = 1 /\ Y!Mirror(m, m) = m - 2 /\ Y!Mirror(m - 2, m) = m - 2
    BY <1>a DEF Y!Mirror
  <1>6. \A i : Row(i) = n * Y!Mirror(i, m) BY DEF Row, n, m
  <1>7. \A i \in 0 .. m - 1 : Row(i) = n * i BY <1>4, <1>6
  <1>8. Row(-1) = Row(1) /\ Row(m) = Row(m - 2)
    <2>1. Row(-1) = n * 1 /\ Row(1) = n * 1 BY <1>5, <1>6, Zenon
    <2>2. Row(m) = n * (m - 2) /\ Row(m - 2) = n * (m - 2) BY <1>5, <1>6, Zenon
    <2> QED BY <2>1, <2>2
  <1> QED BY <1>1, <1>2, <1>3, <1>7, <1>8 DEF n, m

LEMMA PixelSuffices == BayerInv => Y!TypeOK /\ Y!Demosaiced
  <1> SUFFICES ASSUME BayerInv PROVE Y!TypeOK /\ Y!Demosaiced OBVIOUS
  <1>1. Y!TypeOK BY DEF BayerInv, BayerTypes
  <1> DEFINE last == IF x > 0 THEN <<y, x - 1>> ELSE <<y - 1, Y!Columns - 1>>
  <1>2. ASSUME rgb # <<>> PROVE \A c \in 1 .. 3 : rgb[c] = Y!Demosaic(last[1], last[2], c)
    <2>1. PICK l \in 0 .. Y!Lines - 1, k \in 0 .. Y!Columns - 1 :
            /\ IF x > 0 THEN l = y /\ k = x - 1 ELSE l = y - 1 /\ k = Y!Columns - 1
            /\ \A c \in 1 .. 3 : rgb[c] = Y!Demosaic(l, k, c)
      BY <1>2 DEF BayerInv, PixelWritten
    <2>2. last[1] = l /\ last[2] = k BY <2>1
    <2> HIDE DEF last
    <2> QED BY <2>1, <2>2
  <1>3. Y!Demosaiced BY <1>2 DEF Y!Demosaiced
  <1> QED BY <1>1, <1>3

LEMMA BayerInit == Y!Init => BayerInv
  <1> SUFFICES ASSUME Y!Init PROVE BayerInv OBVIOUS
  <1>0. /\ size \in Sizes /\ x = -1 /\ y = 0 /\ prevLine = 0 /\ curLine = 0 /\ nextLine = Y!Columns
        /\ rgb = <<>>
    BY DEF Y!Init
  <1>1. Y!Columns \in Nat /\ Y!Lines \in Nat /\ Y!Columns >= 2 /\ Y!Lines >= 4 BY <1>0, SizeIs
  <1>2. 0 \in 0 .. Y!Lines - 1 BY <1>1
  <1>3. Row(0) = Y!Columns * 0 /\ Row(0) \in Nat /\ Row(0) + Y!Columns =< Y!Columns * Y!Lines
        /\ Y!Columns * Y!Lines \in Nat
    BY <1>0, <1>2, RowIs
  <1>4. Y!Columns * 0 = 0 BY <1>1
  <1>5. BayerTypes BY <1>0, <1>1, <1>3, <1>4 DEF BayerTypes, Y!TypeOK
  <1>6. Between BY <1>0, <1>1, <1>4 DEF Between
  <1>7. Along BY <1>0, <1>1 DEF Along
  <1> QED BY <1>0, <1>5, <1>6, <1>7 DEF BayerInv, PixelWritten

LEMMA BayerStep == BayerInv /\ [Y!Next]_Y!vars => BayerInv'
  <1> SUFFICES ASSUME BayerInv, [Y!Next]_Y!vars PROVE BayerInv' OBVIOUS
  <1>0. /\ size \in Sizes /\ x \in -1 .. Y!Columns - 1 /\ y \in 0 .. Y!Lines
        /\ x >= 0 => y < Y!Lines
        /\ prevLine \in 0 .. Y!Columns * Y!Lines /\ curLine \in 0 .. Y!Columns * Y!Lines
        /\ nextLine \in 0 .. Y!Columns * Y!Lines
    BY DEF BayerInv, BayerTypes, Y!TypeOK
  <1>1. /\ Y!Columns \in Nat /\ Y!Lines \in Nat /\ Y!Columns >= 2 /\ Y!Lines >= 4
        /\ Y!Columns % 2 = 0 /\ Y!Lines % 2 = 0
    BY <1>0, SizeIs
  <1>2. size' = size BY DEF Y!Next, Y!StartLine, Y!Column, Y!LastColumn, Y!vars
  <1>3. /\ Y!Columns' = Y!Columns /\ Y!Lines' = Y!Lines BY <1>2 DEF Y!Columns, Y!Lines
  <1>4. \A p : Y!Place(p)' = Y!Place(p) BY <1>3 DEF Y!Place
  <1>5. /\ \A i : Row(i)' = Row(i)
        /\ \A l, k : Over(l, k)' = Over(l, k)
        /\ \A l, k, c : Y!Demosaic(l, k, c)' = Y!Demosaic(l, k, c)
    <2>1. \A i : Row(i)' = Row(i) BY <1>3 DEF Row
    <2>2. \A l, k : Over(l, k)' = Over(l, k) BY <1>4 DEF Over
    <2>3. \A l, k, c : Y!Demosaic(l, k, c)' = Y!Demosaic(l, k, c) BY <1>2 DEF Y!Demosaic,
        Y!Place, Y!Columns, Y!Lines
    <2> QED BY <2>1, <2>2, <2>3
  <1> DEFINE n == Y!Columns
             m == Y!Lines
  <1>6. /\ \A i \in 0 .. m - 1 : Row(i) = n * i /\ Row(i) \in Nat /\ Row(i) + n =< n * m
        /\ \A i \in Int : n * (i + 1) = n * i + n
        /\ \A i \in Int : n * (i - 1) = n * i - n
        /\ Row(-1) = Row(1) /\ Row(m) = Row(m - 2)
        /\ n * m \in Nat
    BY <1>0, RowIs
  <1>7. \A i, j : Y!Place(<<i, j>>) = Row(i) + Y!Mirror(j, n) BY PlaceIs
  <1>8. /\ \A j \in 0 .. n - 1 : Y!Mirror(j, n) = j
        /\ Y!Mirror(-1, n) = 1 /\ Y!Mirror(n, n) = n - 2
    BY <1>1 DEF Y!Mirror
  <1>9. \A i \in -1 .. m : Row(i) \in Nat /\ Row(i) + n =< n * m
    <2> TAKE i \in -1 .. m
    <2>1. CASE i \in 0 .. m - 1 BY <2>1, <1>6
    <2>2. CASE i = -1
      <3>1. 1 \in 0 .. m - 1 /\ Row(i) = Row(1) BY <2>2, <1>1, <1>6
      <3> QED BY <3>1, <1>6
    <2>3. CASE i = m
      <3>1. m - 2 \in 0 .. m - 1 /\ Row(i) = Row(m - 2) BY <2>3, <1>1, <1>6
      <3> QED BY <3>1, <1>6
    <2> QED BY <2>1, <2>2, <2>3, <1>1
  <1>10. CASE Y!StartLine
    <2>1. PICK l \in 0 .. m - 1 : l = y /\ x = -1 BY <1>0, <1>1, <1>10 DEF Y!StartLine
    <2> DEFINE prev == IF y = 0 THEN nextLine
                       ELSE IF y < Y!Lines - 1 THEN curLine - Y!Columns ELSE prevLine
               next == IF y = Y!Lines - 1 THEN prevLine ELSE nextLine
    <2>2. /\ hVals' = <<Y!At(curLine + 1), Y!At(curLine)>>
          /\ vSums' = <<Y!Average(Y!At(prev + 1), Y!At(next + 1)), Y!Average(Y!At(prev), Y!At(next))>>
          /\ prevLine' = prev + 1 /\ curLine' = curLine + 1 /\ nextLine' = next + 1
          /\ x' = 0 /\ y' = y /\ rgb' = rgb
      BY <1>10 DEF Y!StartLine
    <2>3. curLine = n * l /\ nextLine = n * l + n /\ (l = m - 1 => prevLine = n * l - n)
      BY <2>1, <1>1 DEF BayerInv, Between
    <2>4. n * l = Row(l) /\ Row(l) \in Nat /\ l \in Nat BY <1>1, <1>6
    <2>5. /\ l + 1 < m => Row(l + 1) = Row(l) + n
          /\ l > 0 => Row(l - 1) = Row(l) - n
          /\ l = 0 => Row(l - 1) = Row(l) + n
          /\ l = m - 1 => Row(l + 1) = Row(l) - n
      <3>1. ASSUME l + 1 < m PROVE Row(l + 1) = Row(l) + n
        <4>1. l + 1 \in 0 .. m - 1 BY <3>1, <1>1
        <4>2. Row(l + 1) = n * (l + 1) /\ n * (l + 1) = n * l + n BY <4>1, <1>6
        <4> QED BY <4>2, <2>4
      <3>2. ASSUME l > 0 PROVE Row(l - 1) = Row(l) - n
        <4>1. l - 1 \in 0 .. m - 1 BY <3>2, <1>1
        <4>2. Row(l - 1) = n * (l - 1) /\ n * (l - 1) = n * l - n BY <4>1, <1>6
        <4> QED BY <4>2, <2>4
      <3>3. ASSUME l = 0 PROVE Row(l - 1) = Row(l) + n
        <4>1. l - 1 = -1 /\ l + 1 = 1 /\ l + 1 < m BY <3>3, <1>1
        <4>2. Row(l - 1) = Row(-1) /\ Row(l + 1) = Row(1) BY <4>1
        <4> QED BY <4>1, <4>2, <3>1, <1>6
      <3>4. ASSUME l = m - 1 PROVE Row(l + 1) = Row(l) - n
        <4>1. l + 1 = m /\ l - 1 = m - 2 /\ l > 0 BY <3>4, <1>1
        <4>2. Row(l + 1) = Row(m) /\ Row(l - 1) = Row(m - 2) BY <4>1
        <4> QED BY <4>1, <4>2, <3>2, <1>6
      <3> QED BY <3>1, <3>2, <3>3, <3>4
    <2>6. prev = Row(l - 1) /\ next = Row(l + 1) /\ curLine = Row(l)
      <3>0. nextLine = Row(l) + n /\ curLine = Row(l) /\ (l = m - 1 => prevLine = Row(l) - n)
        BY <2>3, <2>4
      <3> HIDE DEF n, m
      <3>1. CASE l = 0 BY <3>0, <3>1, <2>1, <2>5, <1>1 DEF n, m
      <3>2. CASE l > 0 /\ l < m - 1 BY <3>0, <3>2, <2>1, <2>5, <1>1 DEF n, m
      <3>3. CASE l > 0 /\ l = m - 1 BY <3>0, <3>3, <2>1, <2>5, <1>1 DEF n, m
      <3> QED BY <3>1, <3>2, <3>3, <2>4, <1>1 DEF m
    <2> HIDE DEF prev, next
    <2>7. \A i \in -1 .. m : Row(i) + 1 = Y!Place(<<i, -1>>) /\ Row(i) = Y!Place(<<i, 0>>)
      <3> TAKE i \in -1 .. m
      <3>1. Y!Place(<<i, -1>>) = Row(i) + 1 BY <1>7, <1>8
      <3>2. Y!Place(<<i, 0>>) = Row(i) + 0 BY <1>7, <1>8, <1>1
      <3>3. Row(i) \in Nat BY <1>9
      <3> QED BY <3>1, <3>2, <3>3
    <2>8. l - 1 \in -1 .. m /\ l \in -1 .. m /\ l + 1 \in -1 .. m BY <1>1
    <2>9. /\ hVals' = <<Y!At(Y!Place(<<l, -1>>)), Y!At(Y!Place(<<l, 0>>))>>
          /\ vSums' = <<Over(l, -1), Over(l, 0)>>
      BY <2>2, <2>6, <2>7, <2>8 DEF Over
    <2>10. /\ prevLine' = Row(l - 1) + 1 /\ curLine' = Row(l) + 1 /\ nextLine' = Row(l + 1) + 1
           /\ prevLine' \in 0 .. n * m /\ curLine' \in 0 .. n * m /\ nextLine' \in 0 .. n * m
      <3>1. prevLine' = Row(l - 1) + 1 /\ curLine' = Row(l) + 1 /\ nextLine' = Row(l + 1) + 1
        BY <2>2, <2>6
      <3>2. \A i \in -1 .. m : Row(i) + 1 \in 0 .. n * m BY <1>1, <1>6, <1>9
      <3> QED BY <3>1, <3>2, <2>8
    <2>11. BayerTypes' BY <2>1, <2>2, <2>10, <1>0, <1>1, <1>2, <1>3 DEF BayerTypes, Y!TypeOK
    <2>12. Between' BY <2>2 DEF Between
    <2>13. Along'
      <3> SUFFICES ASSUME NEW i \in 0 .. Y!Lines' - 1, NEW k \in 0 .. Y!Columns' - 1, y' = i, x' = k
                   PROVE  /\ prevLine' = Row(i - 1)' + k + 1 /\ curLine' = Row(i)' + k + 1
                          /\ nextLine' = Row(i + 1)' + k + 1
                          /\ hVals' = <<Y!At(Y!Place(<<i, k - 1>>)'), Y!At(Y!Place(<<i, k>>)')>>
                          /\ vSums' = <<Over(i, k - 1)', Over(i, k)'>>
        BY DEF Along, Y!At
      <3>1. i = l /\ k = 0 /\ k - 1 = -1 BY <2>1, <2>2
      <3>2. /\ Row(i - 1)' = Row(l - 1) /\ Row(i)' = Row(l) /\ Row(i + 1)' = Row(l + 1)
            /\ Y!Place(<<i, k - 1>>)' = Y!Place(<<l, -1>>) /\ Y!Place(<<i, k>>)' = Y!Place(<<l, 0>>)
            /\ Over(i, k - 1)' = Over(l, -1) /\ Over(i, k)' = Over(l, 0)
        BY <3>1, <1>4, <1>5
      <3>3. Row(l - 1) \in Nat /\ Row(l) \in Nat /\ Row(l + 1) \in Nat BY <1>9, <2>8
      <3> QED BY <3>1, <3>2, <3>3, <2>9, <2>10
    <2>14. PixelWritten' BY <2>1, <2>2, <1>1, <1>3, <1>5 DEF BayerInv, PixelWritten
    <2> QED BY <2>11, <2>12, <2>13, <2>14 DEF BayerInv

  <1>11. CASE Y!Column
    <2>1. PICK l \in 0 .. m - 1, k \in 0 .. n - 2 : l = y /\ k = x
      BY <1>0, <1>1, <1>11 DEF Y!Column
    <2> DEFINE h == Append(hVals, Y!At(curLine))
               v == Append(vSums, Y!Average(Y!At(prevLine), Y!At(nextLine)))
    <2>2. /\ rgb' = Y!Pixel(h, v) /\ hVals' = Tail(h) /\ vSums' = Tail(v)
          /\ prevLine' = prevLine + 1 /\ curLine' = curLine + 1 /\ nextLine' = nextLine + 1
          /\ x' = x + 1 /\ y' = y
      BY <1>11 DEF Y!Column
    <2>3. l \in Nat /\ k \in Nat /\ k \in 0 .. n - 1 /\ k + 1 \in 0 .. n - 1 BY <1>1
    <2>4. /\ prevLine = Row(l - 1) + k + 1 /\ curLine = Row(l) + k + 1
          /\ nextLine = Row(l + 1) + k + 1
          /\ hVals = <<Y!At(Y!Place(<<l, k - 1>>)), Y!At(Y!Place(<<l, k>>))>>
          /\ vSums = <<Over(l, k - 1), Over(l, k)>>
      BY <2>1, <2>3 DEF BayerInv, Along
    <2>5. l - 1 \in -1 .. m /\ l \in -1 .. m /\ l + 1 \in -1 .. m BY <1>1
    <2>6. \A i \in -1 .. m : Y!Place(<<i, k + 1>>) = Row(i) + k + 1
      <3> TAKE i \in -1 .. m
      <3>1. Y!Place(<<i, k + 1>>) = Row(i) + (k + 1) BY <1>7, <1>8, <2>3
      <3> QED BY <3>1, <1>9, <2>3
    <2>7. /\ curLine = Y!Place(<<l, k + 1>>) /\ prevLine = Y!Place(<<l - 1, k + 1>>)
          /\ nextLine = Y!Place(<<l + 1, k + 1>>)
      BY <2>4, <2>5, <2>6
    <2>8. /\ h = <<Y!At(Y!Place(<<l, k - 1>>)), Y!At(Y!Place(<<l, k>>)), Y!At(Y!Place(<<l, k + 1>>))>>
          /\ v = <<Over(l, k - 1), Over(l, k), Over(l, k + 1)>>
      <3>1. Y!Average(Y!At(prevLine), Y!At(nextLine)) = Over(l, k + 1) BY <2>7 DEF Over
      <3>2. Y!At(curLine) = Y!At(Y!Place(<<l, k + 1>>)) BY <2>7
      <3>3. \A a, b, c : Append(<<a, b>>, c) = <<a, b, c>> BY AppendThird
      <3> QED BY <3>1, <3>2, <3>3, <2>4
    <2> HIDE DEF h, v
    <2>9. /\ hVals' = <<Y!At(Y!Place(<<l, k>>)), Y!At(Y!Place(<<l, k + 1>>))>>
          /\ vSums' = <<Over(l, k), Over(l, k + 1)>>
      <3>1. \A a, b, c : Tail(<<a, b, c>>) = <<b, c>> OBVIOUS
      <3> QED BY <3>1, <2>2, <2>8
    <2>10. \A c \in 1 .. 3 : Y!Pixel(h, v)[c] = Y!Demosaic(l, k, c)
      <3>1. /\ h[1] = Y!At(Y!Place(<<l, k - 1>>)) /\ h[2] = Y!At(Y!Place(<<l, k>>))
            /\ h[3] = Y!At(Y!Place(<<l, k + 1>>))
            /\ v[1] = Over(l, k - 1) /\ v[2] = Over(l, k) /\ v[3] = Over(l, k + 1)
        BY <2>8
      <3> QED BY <3>1, <2>1, <2>3, <1>0, PixelIs
    <2>11. /\ prevLine' = Row(l - 1) + (k + 1) + 1 /\ curLine' = Row(l) + (k + 1) + 1
           /\ nextLine' = Row(l + 1) + (k + 1) + 1
           /\ prevLine' \in 0 .. n * m /\ curLine' \in 0 .. n * m /\ nextLine' \in 0 .. n * m
      <3>1. \A i \in -1 .. m : /\ Row(i) + k + 1 + 1 = Row(i) + (k + 1) + 1
                               /\ Row(i) + k + 1 + 1 \in 0 .. n * m
        BY <1>1, <1>6, <1>9, <2>3
      <3> QED BY <3>1, <2>2, <2>4, <2>5
    <2>12. BayerTypes'
      BY <2>1, <2>2, <2>3, <2>11, <1>0, <1>1, <1>2, <1>3 DEF BayerTypes, Y!TypeOK
    <2>13. Between' BY <2>1, <2>2, <2>3 DEF Between
    <2>14. Along'
      <3> SUFFICES ASSUME NEW i \in 0 .. Y!Lines' - 1, NEW j \in 0 .. Y!Columns' - 1, y' = i, x' = j
                   PROVE  /\ prevLine' = Row(i - 1)' + j + 1 /\ curLine' = Row(i)' + j + 1
                          /\ nextLine' = Row(i + 1)' + j + 1
                          /\ hVals' = <<Y!At(Y!Place(<<i, j - 1>>)'), Y!At(Y!Place(<<i, j>>)')>>
                          /\ vSums' = <<Over(i, j - 1)', Over(i, j)'>>
        BY DEF Along, Y!At
      <3>1. i = l /\ j = k + 1 /\ j - 1 = k BY <2>1, <2>2, <2>3
      <3>2. /\ Row(i - 1)' = Row(l - 1) /\ Row(i)' = Row(l) /\ Row(i + 1)' = Row(l + 1)
            /\ Y!Place(<<i, j - 1>>)' = Y!Place(<<l, k>>) /\ Y!Place(<<i, j>>)' = Y!Place(<<l, k + 1>>)
            /\ Over(i, j - 1)' = Over(l, k) /\ Over(i, j)' = Over(l, k + 1)
        BY <3>1, <1>4, <1>5
      <3> QED BY <3>1, <3>2, <2>9, <2>11
    <2>15. PixelWritten'
      <3>1. /\ l \in 0 .. Y!Lines' - 1 /\ k \in 0 .. Y!Columns' - 1 /\ l = y' /\ k = x' - 1 /\ x' > 0
        BY <2>1, <2>2, <2>3, <1>3
      <3>2. \A c \in 1 .. 3 : rgb'[c] = Y!Demosaic(l, k, c)' BY <2>2, <2>10, <1>5
      <3> QED BY <3>1, <3>2 DEF PixelWritten
    <2> QED BY <2>12, <2>13, <2>14, <2>15 DEF BayerInv
  <1>12. CASE Y!LastColumn
    <2>1. PICK l \in 0 .. m - 1, k \in 0 .. n - 1 : l = y /\ k = x /\ k = n - 1
      BY <1>0, <1>1, <1>12 DEF Y!LastColumn
    <2> DEFINE h == Append(hVals, hVals[1])
               v == Append(vSums, vSums[1])
    <2>2. rgb' = Y!Pixel(h, v) /\ x' = -1 /\ y' = y + 1 /\ UNCHANGED <<size, Y!lines, hVals, vSums>>
      BY <1>12 DEF Y!LastColumn
    <2>3. l \in Nat /\ k \in Nat /\ k + 1 = n BY <1>1, <2>1
    <2>4. /\ prevLine = Row(l - 1) + k + 1 /\ curLine = Row(l) + k + 1
          /\ nextLine = Row(l + 1) + k + 1
          /\ hVals = <<Y!At(Y!Place(<<l, k - 1>>)), Y!At(Y!Place(<<l, k>>))>>
          /\ vSums = <<Over(l, k - 1), Over(l, k)>>
      BY <2>1 DEF BayerInv, Along
    <2>5. \A i : Y!Place(<<i, k + 1>>) = Y!Place(<<i, k - 1>>)
      <3> TAKE i
      <3>1. k - 1 \in 0 .. n - 1 /\ k - 1 = n - 2 BY <2>1, <2>3, <1>1
      <3>2. Y!Place(<<i, k - 1>>) = Row(i) + (n - 2) BY <3>1, <1>7, <1>8
      <3>3. Y!Place(<<i, k + 1>>) = Row(i) + (n - 2) BY <2>3, <1>7, <1>8
      <3> QED BY <3>2, <3>3
    <2>6. /\ h = <<Y!At(Y!Place(<<l, k - 1>>)), Y!At(Y!Place(<<l, k>>)), Y!At(Y!Place(<<l, k + 1>>))>>
          /\ v = <<Over(l, k - 1), Over(l, k), Over(l, k + 1)>>
      <3>1. Over(l, k + 1) = Over(l, k - 1) BY <2>5 DEF Over
      <3>2. Y!At(Y!Place(<<l, k + 1>>)) = Y!At(Y!Place(<<l, k - 1>>)) BY <2>5
      <3>3. \A a, b : Append(<<a, b>>, a) = <<a, b, a>> BY AppendThird
      <3>4. hVals[1] = Y!At(Y!Place(<<l, k - 1>>)) /\ vSums[1] = Over(l, k - 1) BY <2>4
      <3> QED BY <3>1, <3>2, <3>3, <3>4, <2>4
    <2> HIDE DEF h, v
    <2>7. \A c \in 1 .. 3 : Y!Pixel(h, v)[c] = Y!Demosaic(l, k, c)
      <3>1. /\ h[1] = Y!At(Y!Place(<<l, k - 1>>)) /\ h[2] = Y!At(Y!Place(<<l, k>>))
            /\ h[3] = Y!At(Y!Place(<<l, k + 1>>))
            /\ v[1] = Over(l, k - 1) /\ v[2] = Over(l, k) /\ v[3] = Over(l, k + 1)
        BY <2>6
      <3> QED BY <3>1, <2>1, <1>0, PixelIs
    <2>8. BayerTypes'
      BY <2>1, <2>2, <2>3, <1>0, <1>1, <1>2, <1>3 DEF BayerTypes, Y!TypeOK, Y!lines
    <2>9. Between'
      <3>1. /\ prevLine' = Row(l - 1) + n /\ curLine' = Row(l) + n /\ nextLine' = Row(l + 1) + n
        <4>1. /\ prevLine = Row(l - 1) + k + 1 /\ curLine = Row(l) + k + 1
              /\ nextLine = Row(l + 1) + k + 1
          BY <2>4
        <4>2. l - 1 \in -1 .. m /\ l \in -1 .. m /\ l + 1 \in -1 .. m BY <1>1
        <4>3. \A i \in -1 .. m : Row(i) + k + 1 = Row(i) + n BY <1>9, <2>3
        <4> QED BY <4>1, <4>2, <4>3, <2>2 DEF Y!lines
      <3>2. Row(l) = n * l /\ Row(l) \in Nat /\ n * (l + 1) = n * l + n BY <2>3, <1>6
      <3>3. curLine' = n * (l + 1) BY <3>1, <3>2
      <3>4. ASSUME l + 1 < m PROVE nextLine' = n * (l + 1) + n
        <4>1. l + 1 \in 0 .. m - 1 BY <3>4, <2>3, <1>1
        <4>2. Row(l + 1) = n * (l + 1) BY <4>1, <1>6
        <4> QED BY <4>2, <3>1
      <3>5. ASSUME l + 1 = m - 1 PROVE prevLine' = n * (l + 1) - n
        <4>1. l - 1 \in 0 .. m - 1 BY <3>5, <2>3, <1>1
        <4>2. Row(l - 1) = n * (l - 1) /\ n * (l - 1) = n * l - n BY <4>1, <1>6, <2>3
        <4>3. Row(l - 1) + n = n * (l + 1) - n BY <4>2, <3>2, <1>1
        <4> QED BY <4>3, <3>1
      <3>6. y' = l + 1 BY <2>1, <2>2
      <3> HIDE DEF n, m
      <3>7. n = Y!Columns' /\ m = Y!Lines' BY <1>3 DEF n, m
      <3> QED BY <3>3, <3>4, <3>5, <3>6, <3>7 DEF Between
    <2>10. Along' BY <2>2, <1>1, <1>3 DEF Along
    <2>11. PixelWritten'
      <3>1. /\ l \in 0 .. Y!Lines' - 1 /\ k \in 0 .. Y!Columns' - 1
            /\ l = y' - 1 /\ k = Y!Columns' - 1 /\ ~(x' > 0)
        BY <2>1, <2>2, <2>3, <1>3
      <3>2. \A c \in 1 .. 3 : rgb'[c] = Y!Demosaic(l, k, c)' BY <2>2, <2>7, <1>5
      <3> QED BY <3>1, <3>2 DEF PixelWritten
    <2> QED BY <2>8, <2>9, <2>10, <2>11 DEF BayerInv
  <1>13. CASE UNCHANGED Y!vars
    <2>1. /\ x' = x /\ y' = y /\ prevLine' = prevLine /\ curLine' = curLine /\ nextLine' = nextLine
          /\ hVals' = hVals /\ vSums' = vSums /\ rgb' = rgb
      BY <1>13 DEF Y!vars
    <2>2. BayerTypes' /\ Between' BY <2>1, <1>2, <1>3 DEF BayerInv, BayerTypes, Y!TypeOK, Between
    <2>3. Along'
      <3> SUFFICES ASSUME NEW i \in 0 .. Y!Lines' - 1, NEW j \in 0 .. Y!Columns' - 1, y' = i, x' = j
                   PROVE  /\ prevLine' = Row(i - 1)' + j + 1 /\ curLine' = Row(i)' + j + 1
                          /\ nextLine' = Row(i + 1)' + j + 1
                          /\ hVals' = <<Y!At(Y!Place(<<i, j - 1>>)'), Y!At(Y!Place(<<i, j>>)')>>
                          /\ vSums' = <<Over(i, j - 1)', Over(i, j)'>>
        BY DEF Along, Y!At
      <3>1. i \in 0 .. m - 1 /\ j \in 0 .. n - 1 /\ y = i /\ x = j BY <2>1, <1>3
      <3>2. /\ prevLine = Row(i - 1) + j + 1 /\ curLine = Row(i) + j + 1
            /\ nextLine = Row(i + 1) + j + 1
            /\ hVals = <<Y!At(Y!Place(<<i, j - 1>>)), Y!At(Y!Place(<<i, j>>))>>
            /\ vSums = <<Over(i, j - 1), Over(i, j)>>
        BY <3>1 DEF BayerInv, Along
      <3> QED BY <3>2, <2>1, <1>4, <1>5
    <2>4. PixelWritten' BY <2>1, <1>3, <1>5 DEF BayerInv, PixelWritten
    <2> QED BY <2>2, <2>3, <2>4 DEF BayerInv
  <1> QED BY <1>10, <1>11, <1>12, <1>13 DEF Y!Next

(* Whatever part a behaviour is of, its invariant holds.                   *)
PartsInv ==
  /\ part \in {"list", "config", "parse", "contexts", "darwin", "flying", "poll", "commands",
               "buffers", "plugin", "unpack", "bayer"}
  /\ part = "list" => ListInv
  /\ part = "config" => LinuxInv
  /\ part = "parse" => P!TypeOK
  /\ part = "contexts" => ContextsInv
  /\ part = "darwin" => DarwinInv
  /\ part = "flying" => FlyingInv
  /\ part = "poll" => PollInv
  /\ part = "commands" => CommandsInv /\ CommandNumbers
  /\ part = "buffers" => BuffersInv
  /\ part = "plugin" => DeviceInv
  /\ part = "unpack" => UnpackInv
  /\ part = "bayer" => BayerInv

(* Every part, in every state it can reach, is as its invariant says; what *)
(* the other theorems say follows from it.                                 *)
THEOREM PartsInvariant == Spec => []PartsInv
  <1>1. Init => PartsInv
    <2> SUFFICES ASSUME Init PROVE PartsInv OBVIOUS
    <2>1. /\ part = "list" => ListInv
          /\ part = "contexts" => ContextsInv
          /\ part = "darwin" => DarwinInv
      BY Begins, ListInit, ContextsInit, DarwinInit
    <2>2. /\ part = "config" => LinuxInv
          /\ part = "parse" => P!TypeOK
          /\ part = "flying" => FlyingInv
          /\ part = "poll" => PollInv
      BY Begins, LinuxInit, ParseInit, FlyingInit, PollInit
    <2>3. /\ part = "commands" => CommandsInv /\ CommandNumbers
          /\ part = "buffers" => BuffersInv
          /\ part = "plugin" => DeviceInv
      BY Begins, CommandsInit, CommandNumbersInit, BuffersInit, DeviceInit
    <2>4. /\ part = "unpack" => UnpackInv
          /\ part = "bayer" => BayerInv
      BY Begins, UnpackInit, BayerInit
    <2> QED BY <2>1, <2>2, <2>3, <2>4, Begins DEF PartsInv
  <1>2. PartsInv /\ [Next]_vars => PartsInv'
    <2> SUFFICES ASSUME PartsInv, [Next]_vars PROVE PartsInv' OBVIOUS
    <2> USE DEF PartsInv
    <2>1. part = "list" => ListInv' BY Goes, ListStep, ListStutter
    <2>2. part = "config" => LinuxInv' BY Goes, LinuxStep
    <2>3. part = "parse" => P!TypeOK' BY Goes, ParseStep
    <2>4. part = "contexts" => ContextsInv' BY Goes, ContextsStep
    <2>5. part = "darwin" => DarwinInv' BY Goes, DarwinStep
    <2>6. part = "flying" => FlyingInv' BY Goes, FlyingStep
    <2>7. part = "poll" => PollInv' BY Goes, PollStep
    <2>8. part = "commands" => CommandsInv' /\ CommandNumbers'
      BY Goes, CommandsStep, CommandNumbersStep
    <2>9. part = "buffers" => BuffersInv' BY Goes, BuffersStep
    <2>10. part = "plugin" => DeviceInv' BY Goes, DeviceStep
    <2>11. part = "unpack" => UnpackInv' BY Goes, UnpackStep
    <2>12. part = "bayer" => BayerInv' BY Goes, BayerStep
    <2> QED
      BY <2>1, <2>2, <2>3, <2>4, <2>5, <2>6, <2>7, <2>8, <2>9, <2>10, <2>11, <2>12, Goes
  <1> QED BY <1>1, <1>2, PTL DEF Spec

(* The states of every part have their types: lists, counters, tags and    *)
(* pointers stay within their bounds.                                      *)
THEOREM PartsTypeCorrect == Spec => []TypeOK
  <1>1. PartsInv => TypeOK
    <2> SUFFICES ASSUME PartsInv PROVE TypeOK OBVIOUS
    <2> USE DEF PartsInv
    <2>1. CASE part = "list" BY <2>1, ListSuffices DEF TypeOK
    <2>2. CASE part = "config" BY <2>2, LinuxSuffices DEF TypeOK
    <2>3. CASE part = "parse" BY <2>3 DEF TypeOK
    <2>4. CASE part = "contexts" BY <2>4 DEF TypeOK, ContextsInv
    <2>5. CASE part = "darwin" BY <2>5 DEF TypeOK, DarwinInv
    <2>6. CASE part = "flying" BY <2>6, FlyingSuffices DEF TypeOK
    <2>7. CASE part = "poll" BY <2>7, PollSuffices DEF TypeOK
    <2>8. CASE part = "commands" BY <2>8, CommandsTyped DEF TypeOK
    <2>9. CASE part = "buffers" BY <2>9 DEF TypeOK, BuffersInv
    <2>10. CASE part = "plugin" BY <2>10, PluginTyped DEF TypeOK
    <2>11. CASE part = "unpack" BY <2>11 DEF TypeOK, UnpackInv
    <2>12. CASE part = "bayer" BY <2>12, PixelSuffices DEF TypeOK
    <2> QED
      BY <2>1, <2>2, <2>3, <2>4, <2>5, <2>6, <2>7, <2>8, <2>9, <2>10, <2>11, <2>12
  <1> QED BY <1>1, PartsInvariant, PTL

(* A stream works in buffers that are set, that are there and that are     *)
(* large enough, and no buffer is left when it stops (src/libfreenect/src/ *)
(* cameras.c).                                                             *)
THEOREM PartsBuffered == Spec => []Buffered
  <1>1. PartsInv => Buffered
    BY BuffersSuffice, FramesTogether, NothingLeaked DEF PartsInv, Buffered
  <1> QED BY <1>1, PartsInvariant, PTL

(* A frame is made of the pixels of the camera: each number that is        *)
(* unpacked has exactly its bits, and no byte beyond the last is read, for *)
(* every width and length; and each pixel of a Bayer frame has, of its own *)
(* colour, its value, and of the others the average of the neighbours that *)
(* have them, also at the edges, for every even size (convert_packed_to_   *)
(* 16bit, convert_packed_to_8bit and convert_bayer_to_rgb in cameras.c).   *)
THEOREM PartsConverted == Spec => []Converted
  <1>1. PartsInv => Converted
    <2> SUFFICES ASSUME PartsInv PROVE Converted OBVIOUS
    <2> USE DEF PartsInv
    <2>1. CASE part = "unpack" BY <2>1 DEF Converted, UnpackInv
    <2>2. CASE part = "bayer" BY <2>2, PixelSuffices DEF Converted
    <2>3. CASE part \notin {"unpack", "bayer"} BY <2>3 DEF Converted
    <2> QED BY <2>1, <2>2, <2>3
  <1> QED BY <1>1, PartsInvariant, PTL

(* The descriptor of the active configuration that a program gets is       *)
(* whole, and of a configuration that was active during the call: from     *)
(* sysfs unless the configuration has changed meanwhile to one of another  *)
(* length, from the cache if only this handle has changed it               *)
(* (os/linux_usbfs.c).                                                     *)
THEOREM PartsConfigured == Spec => [](part = "config" => L!ReturnsActive)
  <1>1. PartsInv => (part = "config" => L!ReturnsActive) BY LinuxSuffices DEF PartsInv
  <1> QED BY <1>1, PartsInvariant, PTL

(* Devices, contexts, the objects of the Darwin backend and the device of  *)
(* a plug-in are there as long as, and only as long as, somebody uses them *)
(* (core.c, os/linux_usbfs.c, os/darwin_usb.c, os/windows_usb.c and the    *)
(* plug-in).                                                               *)
THEOREM PartsInUse == Spec => []InUse
  <1>1. PartsInv => InUse
    <2> SUFFICES ASSUME PartsInv PROVE InUse OBVIOUS
    <2> USE DEF PartsInv
    <2>1. CASE part = "list" BY <2>1, ListSuffices DEF InUse
    <2>2. CASE part = "contexts" BY <2>2, ContextsSuffices DEF InUse
    <2>3. CASE part = "darwin" BY <2>3, DarwinSuffices DEF InUse
    <2>4. CASE part = "plugin" BY <2>4, DeviceUsedOpen, PlaysForItsUser DEF InUse
    <2>5. CASE part \notin {"list", "contexts", "darwin", "plugin"} BY <2>5 DEF InUse
    <2> QED BY <2>1, <2>2, <2>3, <2>4, <2>5
  <1> QED BY <1>1, PartsInvariant, PTL

(* A list of devices that a program gets is of the devices that are there, *)
(* each once, and as long as nothing is unplugged it has all that were     *)
(* there throughout, however a scan begins again or falls back (core.c,    *)
(* os/linux_usbfs.c and os/darwin_usb.c).  The list of transfers in flight *)
(* has each of them once, sorted by timeouts; only those are completed,    *)
(* and only one whose timeout has passed as timed out (io.c).              *)
THEOREM PartsListed == Spec => []Listed
  <1>1. PartsInv => Listed
    <2> SUFFICES ASSUME PartsInv PROVE Listed OBVIOUS
    <2> USE DEF PartsInv
    <2>1. CASE part = "list" BY <2>1, ListSuffices DEF Listed
    <2>2. CASE part = "flying" BY <2>2, FlyingSuffices DEF Listed
    <2>3. CASE part \notin {"list", "flying"} BY <2>3 DEF Listed
    <2> QED BY <2>1, <2>2, <2>3
  <1> QED BY <1>1, PartsInvariant, PTL

(* Who waits gets what he waits for.  A timeout is not forgotten: while a  *)
(* transfer in flight may time out, the timer is set or about to be        *)
(* (io.c). Each search of the table of usbi_poll ends in the right row,    *)
(* whoever reads the pipe finds a byte, and the thread that waits for      *)
(* events waits for those of all transfers, unless it is about to be       *)
(* interrupted (os/poll_windows.c, io.c).  A command to the camera whose   *)
(* transfers do not fail is answered (cameras.c).                          *)
THEOREM PartsWatched == Spec => []Watched
  <1>1. PartsInv => Watched
    <2> SUFFICES ASSUME PartsInv PROVE Watched OBVIOUS
    <2> USE DEF PartsInv
    <2>1. CASE part = "flying" BY <2>1, FlyingSuffices DEF Watched
    <2>2. CASE part = "poll" BY <2>2, PollSuffices DEF Watched
    <2>3. CASE part = "commands" BY <2>3, CommandsSuffice DEF Watched
    <2>4. CASE part \notin {"flying", "poll", "commands"} BY <2>4 DEF Watched
    <2> QED BY <2>1, <2>2, <2>3, <2>4
  <1> QED BY <1>1, PartsInvariant, PTL
=============================================================================
