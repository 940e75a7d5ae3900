---------------------------- MODULE StreamBuffers ----------------------------
(***************************************************************************)
(* The buffers of a stream of libfreenect (cameras.c): the one in which    *)
(* packets are put together, and the one that the callback gets, which may *)
(* be the user's; their sizes, by the format; and what happens when a user *)
(* sets a buffer or a format, in a callback or outside, while the stream   *)
(* is stopped, running, or just being started: the registers are written   *)
(* by transfers that handle events, and run callbacks of the other stream. *)
(***************************************************************************)
EXTENDS Integers

CONSTANT UserBufs            (* strings; each large enough for every frame   *)

VARIABLES
  pc,                        (* what the user's thread is in                 *)
  running, format,
  usr_buf, lib_buf, proc_buf, raw_buf, split_bufs, frame_size,
  heap,                      (* size of each internal buffer, 0 if free      *)
  filled,                    (* where packets of the frame are; where it     *)
  frame,                     (* is when the callback gets it                 *)
  late, switched             (* a buffer or a format was set during the      *)
                             (* start; a buffer, outside of the callback,    *)
                             (* since the frame began                        *)

pointers == <<usr_buf, lib_buf, proc_buf, raw_buf>>
sizes == <<split_bufs, frame_size, heap>>
vars == <<pc, running, format, pointers, sizes, filled, frame, late, switched>>

(* What stream_init is called with, and how much a conversion writes.      *)
Size(raw, proc, out) == [raw |-> raw, proc |-> proc, out |-> out]
Depth ==
  [DEPTH_11BIT |-> Size(422400, 614400, 614400), DEPTH_10BIT |-> Size(384000, 614400, 614400),
   DEPTH_11BIT_PACKED |-> Size(0, 422400, 0), DEPTH_10BIT_PACKED |-> Size(0, 384000, 0)]
Video ==
  [VIDEO_RGB |-> Size(307200, 921600, 921600), VIDEO_BAYER |-> Size(0, 307200, 0),
   IR_8BIT |-> Size(390400, 312320, 312320), IR_10BIT |-> Size(390400, 307200, 624640),
   IR_10BIT_PACKED |-> Size(0, 390400, 0), YUV_RGB |-> Size(614400, 921600, 921600),
   YUV_RAW |-> Size(0, 614400, 0)]
Formats == DOMAIN Depth \cup DOMAIN Video
Of(f) == IF f \in DOMAIN Depth THEN Depth[f] ELSE Video[f]
Channel(f) == IF f \in DOMAIN Depth THEN DOMAIN Depth ELSE DOMAIN Video

Init ==
  /\ pc = "stopped" /\ running = FALSE /\ format \in {"DEPTH_11BIT", "VIDEO_RGB"}
  /\ usr_buf = "NULL" /\ lib_buf = "NULL" /\ proc_buf = "NULL" /\ raw_buf = "NULL"
  /\ split_bufs = FALSE /\ frame_size = 0 /\ heap = [lib |-> 0, raw |-> 0]
  /\ filled = {} /\ frame = "NULL" /\ late = FALSE /\ switched = FALSE
-----------------------------------------------------------------------------
(* freenect_start_depth and freenect_start_video, up to the registers      *)
Start ==
  /\ pc = "stopped" /\ ~running /\ pc' = "starting"
  /\ lib_buf' = (IF usr_buf # "NULL" THEN "NULL" ELSE "lib")
  /\ proc_buf' = (IF usr_buf # "NULL" THEN usr_buf ELSE "lib")
  /\ split_bufs' = (Of(format).raw # 0)
  /\ raw_buf' = (IF split_bufs' THEN "raw" ELSE proc_buf')
  /\ frame_size' = (IF split_bufs' THEN Of(format).raw ELSE Of(format).proc)
  /\ heap' = [lib |-> IF usr_buf # "NULL" THEN heap.lib ELSE Of(format).proc,
              raw |-> IF split_bufs' THEN Of(format).raw ELSE heap.raw]
  /\ filled' = {} /\ late' = FALSE /\ switched' = FALSE
  /\ UNCHANGED <<running, format, usr_buf, frame>>

Started ==
  /\ pc = "starting" /\ pc' = "running" /\ running' = TRUE
  /\ UNCHANGED <<format, pointers, sizes, filled, frame, late, switched>>

(* freenect_stop_*, and stream_freebufs                                    *)
Stop ==
  /\ pc = "running" /\ pc' = "stopping" /\ running' = FALSE
  /\ UNCHANGED <<format, pointers, sizes, filled, frame, late, switched>>

Stopped ==
  /\ pc = "stopping" /\ pc' = "stopped"
  /\ heap' = [lib |-> IF lib_buf # "NULL" THEN 0 ELSE heap.lib,
              raw |-> IF split_bufs THEN 0 ELSE heap.raw]
  /\ lib_buf' = "NULL" /\ proc_buf' = "NULL" /\ raw_buf' = "NULL"
  /\ UNCHANGED <<running, format, usr_buf, split_bufs, frame_size, filled, frame, late, switched>>

(* stream_setbuf                                                           *)
Refused(b) == running /\ b = "NULL" /\ lib_buf = "NULL"
SetBuf_AlsoNull(b) ==
  /\ usr_buf' = b
  /\ proc_buf' = (IF ~running THEN proc_buf ELSE IF b = "NULL" THEN lib_buf ELSE b)
  /\ raw_buf' = (IF running /\ ~split_bufs THEN proc_buf' ELSE raw_buf)
  /\ late' = (late \/ pc = "starting")
  /\ switched' = (switched \/ pc # "callback")
  /\ UNCHANGED <<pc, running, format, lib_buf, sizes, filled, frame>>
SetBuf(b) ==
  /\ ~Refused(b)
  /\ usr_buf' = b
  /\ proc_buf' = (IF ~running THEN proc_buf ELSE IF b = "NULL" THEN lib_buf ELSE b)
  /\ raw_buf' = (IF running /\ ~split_bufs THEN proc_buf' ELSE raw_buf)
  /\ late' = (late \/ pc = "starting")
  /\ switched' = (switched \/ pc # "callback")
  /\ UNCHANGED <<pc, running, format, lib_buf, sizes, filled, frame>>

SetFormat(f) ==
  /\ ~running /\ f \in Channel(format)
  /\ format' = f /\ late' = (late \/ pc = "starting")
  /\ UNCHANGED <<pc, running, pointers, sizes, filled, frame, switched>>
-----------------------------------------------------------------------------
(* depth_process and video_process: a packet of a frame; its last, when    *)
(* the frame is converted and the callback called; its return.             *)
Packet ==
  /\ pc = "running" /\ filled' = filled \cup {raw_buf}
  /\ UNCHANGED <<pc, running, format, pointers, sizes, frame, late, switched>>

LastPacket ==
  /\ pc = "running" /\ pc' = "callback"
  /\ filled' = filled \cup {raw_buf} /\ frame' = proc_buf
  /\ UNCHANGED <<running, format, pointers, sizes, late, switched>>

Assembled == IF split_bufs THEN "raw" ELSE frame
(* After a loss that hid the end of a frame, the packet at hand is one of  *)
(* the next frame, and has been stored already.                            *)
Return(ahead) ==
  /\ pc = "callback" /\ pc' = "running" /\ frame' = "NULL"
  /\ filled' = (IF ahead THEN {Assembled} ELSE {}) /\ switched' = (filled' \notin {{}, {raw_buf}})
  /\ UNCHANGED <<running, format, pointers, sizes, late>>

Next ==
  \/ Start \/ Started \/ Stop \/ Stopped \/ Packet \/ LastPacket
  \/ \E ahead \in BOOLEAN : Return(ahead)
  \/ \E b \in UserBufs \cup {"NULL"} : SetBuf(b)
  \/ \E f \in Formats : SetFormat(f)
-----------------------------------------------------------------------------
TypeOK ==
  /\ pc \in {"stopped", "starting", "running", "callback", "stopping"}
  /\ running \in BOOLEAN /\ (running <=> pc \in {"running", "callback"}) /\ format \in Formats
  /\ usr_buf \in UserBufs \cup {"NULL"} /\ lib_buf \in {"lib", "NULL"}
  /\ proc_buf \in UserBufs \cup {"lib", "NULL"} /\ raw_buf \in UserBufs \cup {"lib", "raw", "NULL"}

Room(b) == IF b \in UserBufs THEN 921600 ELSE IF b = "NULL" THEN 0 ELSE heap[b]

(* However buffers are set, a running stream has the one that was set last *)
(* or one of its own, which is large enough; only that of IR_10BIT is not. *)
(* What was set during the start has no effect, or, a format, the wrong    *)
(* one.                                                                    *)
BufferSet ==
  running /\ ~late =>
    /\ proc_buf = IF usr_buf = "NULL" THEN "lib" ELSE usr_buf
    /\ Room(raw_buf) >= frame_size
    /\ Room(proc_buf) >= Of(format).out \/ format = "IR_10BIT"

(* A callback gets a frame all of whose packets are in the buffer it was   *)
(* converted from, unless the buffer was changed since it began.           *)
FrameTogether ==
  pc = "callback" /\ ~switched => filled = {Assembled}

(* Internal buffers are freed with every stop, although the user set one   *)
(* of his own meanwhile, and not before.                                   *)
BuffersFreed ==
  /\ pc = "stopped" => heap.lib = 0 /\ heap.raw = 0
  /\ {lib_buf, raw_buf, proc_buf} \cap {b \in DOMAIN heap : heap[b] = 0} = {}
=============================================================================
