---------------------------- MODULE PacketStream ----------------------------
(***************************************************************************)
(* Reassembly of camera frames from isochronous packets: stream_process,   *)
(* stream_init and the start/stop of a packet_stream, as in                *)
(* libfreenect/src/cameras.c.                                              *)
(*                                                                         *)
(* The camera cuts a frame into PktsPerFrame packets.  Each carries an     *)
(* 8-bit sequence number, a flag (start, middle or end of frame) and the   *)
(* frame's timestamp.  USB drops packets at will.  The host writes packet  *)
(* pkt_num of a frame at offset pkt_num * pkt_size of raw_buf, and hands   *)
(* raw_buf to the user's callback whenever stream_process returns a        *)
(* nonzero frame size.                                                     *)
(*                                                                         *)
(* Both freenect_start_depth and freenect_start_video set variable_length  *)
(* to 0, so the variable-length branches of stream_process never run and   *)
(* are not modelled.  valid_frames only selects a log level.               *)
(***************************************************************************)
EXTENDS Integers, FiniteSets

CONSTANTS
  SeqMod,     (* sequence numbers are modulo SeqMod; 256 for a uint8_t       *)
  MaxLost,    (* a larger loss makes the stream resynchronise; 5 in the code *)
  FrameSize,  (* strm->frame_size, bytes of a raw frame                      *)
  PktSize,    (* strm->pkt_size, payload bytes of a full packet              *)
  DataLens,   (* payload lengths a packet may arrive with                    *)
  MaxGap,     (* bound: packets missed in a row by a synced stream           *)
  MaxFrames   (* bound: frames the camera sends                              *)

\* stream_init: the payload of a frame's last packet, and packets per frame.
LastPktSize == IF FrameSize % PktSize = 0 THEN PktSize ELSE FrameSize % PktSize
PktsPerFrame == (FrameSize + PktSize - 1) \div PktSize

\* The formats of the code give from 162 to 323 packets per frame, so one
\* loss of at most MaxLost packets never spans two ends of frame.
ASSUME GeometryAssumption ==
  /\ FrameSize \in Nat \ {0}
  /\ PktSize \in Nat \ {0}
  /\ DataLens \in SUBSET Nat

ASSUME StreamAssumption ==
  /\ SeqMod \in Nat \ {0}
  /\ MaxLost \in Nat
  /\ MaxLost + 1 < PktsPerFrame
  /\ MaxLost < SeqMod
  /\ MaxGap \in Nat
  /\ MaxFrames \in Nat

VARIABLES
  \* the camera
  frame,           (* number of the frame being sent; also its timestamp     *)
  pos,             (* index in the frame of the next packet sent             *)
  cam_seq,         (* sequence number of the next packet sent                *)
  \* packet_stream
  running, synced, seq, pkt_num, got_pkts, valid_pkts,
  last_timestamp, timestamp,
  raw_buf,         (* per packet slot, the packet stored there last          *)
  got_frame_size,  (* what the last packet made stream_process return        *)
  \* history
  gap,             (* packets sent since the one a synced stream awaits      *)
  asm,             (* number of the frame being assembled                    *)
  clean,           (* packets received intact in a row, at most CleanCap     *)
  dbuf_end         (* end offset of the last copy into raw_buf               *)

camera == <<frame, pos, cam_seq>>
counters == <<seq, pkt_num, got_pkts, valid_pkts, last_timestamp, timestamp>>
vars == <<camera, running, synced, counters, raw_buf, got_frame_size,
          gap, asm, clean, dbuf_end>>

Slots == 0 .. PktsPerFrame - 1
CleanCap == PktsPerFrame + 1
Packet == [frame : Nat, pos : Slots]
NoPacket == [frame |-> 0, pos |-> 0]
EmptyBuf == [k \in Slots |-> NoPacket]

Init ==
  /\ frame = 1 /\ pos = 0 /\ cam_seq = 0
  /\ running = FALSE /\ synced = FALSE
  /\ seq = 0 /\ pkt_num = 0 /\ got_pkts = 0 /\ valid_pkts = 0
  /\ last_timestamp = 0 /\ timestamp = 0
  /\ raw_buf = EmptyBuf
  /\ got_frame_size = 0
  /\ gap = 0 /\ asm = 0 /\ clean = 0 /\ dbuf_end = 0
-----------------------------------------------------------------------------
(* The camera sends one packet. *)
Emit ==
  /\ frame =< MaxFrames
  /\ pos' = IF pos = PktsPerFrame - 1 THEN 0 ELSE pos + 1
  /\ frame' = IF pos = PktsPerFrame - 1 THEN frame + 1 ELSE frame
  /\ cam_seq' = IF cam_seq = SeqMod - 1 THEN 0 ELSE cam_seq + 1

Flag(p) == CASE p = 0 -> "sof" [] p = PktsPerFrame - 1 -> "eof" [] OTHER -> "mof"

\* expected_pkt_size of packet p.
SizeAt_IgnoringLast(p) == PktSize
SizeAt(p) == IF p = PktsPerFrame - 1 THEN LastPktSize ELSE PktSize

(* A packet that never arrives, arrives empty or shorter than a header, or *)
(* with a bad magic: the stream does not move.                             *)
Lose ==
  /\ Emit
  /\ synced => gap < MaxGap
  /\ gap' = IF synced THEN gap + 1 ELSE gap
  /\ clean' = 0
  /\ got_frame_size' = 0
  /\ UNCHANGED <<running, synced, counters, raw_buf, asm, dbuf_end>>

(* A packet arrives whole, with len payload bytes. *)
Arrive(len) ==
  /\ Emit
  /\ clean' = IF len =< SizeAt(pos) /\ running
              THEN IF clean < CleanCap THEN clean + 1 ELSE clean
              ELSE 0

(* depth_process and video_process drop what arrives on a stopped stream;  *)
(* an unsynced stream waits for a start of frame.                          *)
Skip ==
  /\ ~running \/ (~synced /\ Flag(pos) # "sof")
  /\ got_frame_size' = 0
  /\ UNCHANGED <<running, synced, counters, raw_buf, gap, asm, dbuf_end>>

\* uint8_t lost = hdr->seq - strm->seq
LostCount_Unwrapped == cam_seq - seq
LostCount == IF cam_seq >= seq THEN cam_seq - seq ELSE cam_seq - seq + SeqMod

(* More than MaxLost packets missing: give up until the next start of frame. *)
Resync_StayingSynced ==
  /\ running /\ synced
  /\ LostCount > MaxLost
  /\ gap' = 0
  /\ got_frame_size' = 0
  /\ UNCHANGED <<running, synced, counters, raw_buf, asm, dbuf_end>>
Resync ==
  /\ running /\ synced
  /\ LostCount > MaxLost
  /\ synced' = FALSE
  /\ gap' = 0
  /\ got_frame_size' = 0
  /\ UNCHANGED <<running, counters, raw_buf, asm, dbuf_end>>

(* Any other packet reaches the consistency checks: on a synced stream,    *)
(* with the lost packets skipped, or at the start of frame that syncs it.  *)
Reaches ==
  /\ running
  /\ IF synced THEN LostCount =< MaxLost ELSE Flag(pos) = "sof"

\* A loss that reaches the end of the frame closes it: it goes out incomplete.
Left == PktsPerFrame - pkt_num
Closes == synced /\ LostCount > 0 /\ Left =< LostCount

PktNum_IgnoringLoss ==
  CASE ~synced -> 0 [] Closes -> LostCount - Left [] OTHER -> pkt_num
PktNum ==
  CASE ~synced -> 0 [] Closes -> LostCount - Left [] OTHER -> pkt_num + LostCount

GotPkts_WithoutReset == IF synced THEN got_pkts ELSE 0
GotPkts == IF synced /\ ~Closes THEN got_pkts ELSE 0

ValidPkts == CASE ~synced -> 0 [] Closes -> got_pkts [] OTHER -> valid_pkts

Timestamp_OfPacket == IF Closes THEN frame ELSE timestamp
Timestamp_NotTaken == timestamp
Timestamp == IF Closes THEN last_timestamp ELSE timestamp

ClosedSize == IF Closes THEN FrameSize ELSE 0
Assembling == CASE ~synced -> frame [] Closes -> asm + 1 [] OTHER -> asm

Consistent ==
  \/ PktNum = 0 /\ Flag(pos) = "sof"
  \/ PktNum = PktsPerFrame - 1 /\ Flag(pos) = "eof"
  \/ PktNum > 0 /\ PktNum < PktsPerFrame - 1 /\ Flag(pos) = "mof"

(* stream_process returns before the copy: only the loss has been handled. *)
Return ==
  /\ seq' = cam_seq
  /\ pkt_num' = PktNum /\ got_pkts' = GotPkts /\ valid_pkts' = ValidPkts
  /\ timestamp' = Timestamp
  /\ got_frame_size' = ClosedSize
  /\ asm' = Assembling
  /\ UNCHANGED <<running, last_timestamp, raw_buf, dbuf_end>>

(* The flag does not fit the packet number: resynchronise. *)
BadFlag ==
  /\ Reaches /\ ~Consistent
  /\ Return
  /\ synced' = FALSE
  /\ gap' = 0

(* Too much payload: the packet is dropped and will count as lost. *)
Oversize(len) ==
  /\ Reaches /\ Consistent
  /\ len > SizeAt(PktNum)
  /\ Return
  /\ synced' = TRUE
  /\ gap' = 1

EofSize_OfFullPackets == PktNum * PktSize + PktSize
EofSize == PktNum * PktSize + LastPktSize

(* The packet is copied; an end of frame hands the frame out. *)
Store(len) ==
  /\ Reaches /\ Consistent
  /\ len =< SizeAt(PktNum)
  /\ synced' = TRUE
  /\ raw_buf' = [raw_buf EXCEPT ![PktNum] = [frame |-> frame, pos |-> pos]]
  /\ dbuf_end' = PktNum * PktSize + len
  /\ seq' = IF cam_seq = SeqMod - 1 THEN 0 ELSE cam_seq + 1
  /\ last_timestamp' = frame
  /\ IF Flag(pos) = "eof"
     THEN /\ pkt_num' = 0 /\ got_pkts' = 0 /\ valid_pkts' = GotPkts + 1
          /\ timestamp' = frame
          /\ got_frame_size' = EofSize
          /\ asm' = Assembling + 1
     ELSE /\ pkt_num' = PktNum + 1 /\ got_pkts' = GotPkts + 1
          /\ valid_pkts' = ValidPkts
          /\ timestamp' = Timestamp
          /\ got_frame_size' = ClosedSize
          /\ asm' = Assembling
  /\ gap' = 0
  /\ UNCHANGED running

Receive(len) ==
  /\ Arrive(len)
  /\ Skip \/ Resync \/ BadFlag \/ Oversize(len) \/ Store(len)

(* freenect_start_*: stream_init gives the stream new buffers and forgets  *)
(* the synchronisation, nothing else.                                      *)
Start ==
  /\ ~running
  /\ running' = TRUE
  /\ synced' = FALSE
  /\ raw_buf' = EmptyBuf
  /\ got_frame_size' = 0
  /\ gap' = 0 /\ clean' = 0 /\ dbuf_end' = 0
  /\ UNCHANGED <<camera, counters, asm>>

(* freenect_stop_*: no packet is processed any more, the buffers go. *)
Stop ==
  /\ running
  /\ running' = FALSE
  /\ raw_buf' = EmptyBuf
  /\ got_frame_size' = 0
  /\ clean' = 0 /\ dbuf_end' = 0
  /\ UNCHANGED <<camera, synced, counters, gap, asm>>

Next == Lose \/ (\E len \in DataLens : Receive(len)) \/ Start \/ Stop

Spec == Init /\ [][Next]_vars
-----------------------------------------------------------------------------
(* Types and ranges. *)
TypeOK ==
  /\ frame \in Nat \ {0} /\ pos \in Slots /\ cam_seq \in 0 .. SeqMod - 1
  /\ running \in BOOLEAN /\ synced \in BOOLEAN
  /\ seq \in 0 .. SeqMod - 1
  /\ pkt_num \in Nat /\ got_pkts \in Nat /\ valid_pkts \in Nat
  /\ last_timestamp \in Nat /\ timestamp \in Nat
  /\ raw_buf \in [Slots -> Packet]
  /\ got_frame_size \in Nat
  /\ gap \in Nat /\ asm \in Nat
  /\ clean \in 0 .. CleanCap
  /\ dbuf_end \in Nat

\* A frame is handed to the user's callback by this step.
Handed == got_frame_size # 0
\* Its number.
HandedFrame == asm - 1

(* No packet is ever copied past the end of raw_buf, whatever was lost and *)
(* whatever lengths arrive (the memcpy of stream_process).                 *)
CopyInBounds == dbuf_end =< FrameSize

(* The size stream_process reports is either nothing or exactly one frame, *)
(* on both the end-of-frame and the lost-end-of-frame path.                *)
WholeFrameSize == got_frame_size \in {0, FrameSize}

(* A packet sits in the slot of its position in its frame: counting the    *)
(* sequence gap places every packet after a loss correctly.                *)
SlotPlacement ==
  \A k \in Slots : raw_buf[k].frame # 0 => raw_buf[k].pos = k

(* valid_pkts of a frame that is handed out counts the slots of raw_buf    *)
(* that the frame really filled; one may have been overwritten since, by   *)
(* the packet that revealed the loss of the frame's end.                   *)
Filled(f) == {k \in Slots : raw_buf[k].frame = f}
CountsFilled ==
  Handed => Cardinality(Filled(HandedFrame)) \in {valid_pkts - 1, valid_pkts}

(* The timestamp passed to the callback is the one of the frame that is    *)
(* handed out, also when its last packets and the first ones of the next   *)
(* frame were lost.                                                        *)
TimestampOfFrame ==
  Handed /\ valid_pkts > 0 => timestamp = HandedFrame

(* "depth image received": what the callback gets is one image, with no    *)
(* packet of a later one in it.                                            *)
NothingNewer ==
  Handed => \A k \in Slots : raw_buf[k].frame =< HandedFrame

(* Callbacks see timestamps that strictly increase: no frame is handed out *)
(* twice and none after a later one.                                       *)
TimestampsIncrease ==
  [][Handed' /\ valid_pkts' > 0 => timestamp' > timestamp]_vars

\* The stream is in step with the camera: at each frame's end it has just
\* handed out that frame, complete.
InStep ==
  /\ synced
  /\ pos = 0 => /\ Handed
                /\ valid_pkts = PktsPerFrame
                /\ timestamp = frame - 1
                /\ \A k \in Slots : raw_buf[k] = [frame |-> frame - 1, pos |-> k]

(* After one packet more than a frame's worth arrived without damage the   *)
(* stream is in step with the camera again, whatever was lost before, also *)
(* when a loss of a multiple of 256 packets went unnoticed.                *)
Recovers == clean > PktsPerFrame => InStep
=============================================================================
