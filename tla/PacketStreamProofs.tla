------------------------- MODULE PacketStreamProofs -------------------------
(***************************************************************************)
(* Invariants of PacketStream, for every packet size, frame size, sequence *)
(* number width and number of frames.                                      *)
(***************************************************************************)
EXTENDS PacketStream, FiniteSetTheorems, TLAPS

(* The constants of a stream are naturals, a frame has at least two        *)
(* packets, and pkts_per_frame packets with a shorter last one are exactly *)
(* frame_size bytes (stream_init, cameras.c:202-205).                      *)
LEMMA Geometry ==
  /\ PktsPerFrame \in Nat /\ LastPktSize \in Nat
  /\ PktsPerFrame > 1
  /\ LastPktSize > 0 /\ LastPktSize =< PktSize
  /\ (PktsPerFrame - 1) * PktSize + LastPktSize = FrameSize
<1> DEFINE q == FrameSize \div PktSize
           r == FrameSize % PktSize
<1>0. FrameSize \in Nat /\ PktSize \in Nat /\ PktSize > 0 /\ FrameSize > 0
  BY GeometryAssumption
<1>1. /\ q \in Nat /\ r \in Nat /\ r < PktSize
      /\ FrameSize = q * PktSize + r
  BY <1>0
<1> HIDE DEF q, r
<1>2. CASE r = 0
  <2>1. LastPktSize = PktSize
    BY <1>2 DEF LastPktSize, r
  <2>2. PktsPerFrame = q
    <3>1. FrameSize + PktSize - 1 = q * PktSize + (PktSize - 1)
      BY <1>0, <1>1, <1>2
    <3>2. (q * PktSize + (PktSize - 1)) \div PktSize = q
      BY <1>0, <1>1
    <3> QED BY <3>1, <3>2 DEF PktsPerFrame
  <2>3. (q - 1) * PktSize + PktSize = q * PktSize
    BY <1>0, <1>1
  <2> QED BY <1>0, <1>1, <1>2, <2>1, <2>2, <2>3, StreamAssumption
<1>3. CASE r > 0
  <2>1. LastPktSize = r
    BY <1>3 DEF LastPktSize, r
  <2>2. PktsPerFrame = q + 1
    <3>1. FrameSize + PktSize - 1 = (q + 1) * PktSize + (r - 1)
      BY <1>0, <1>1, <1>3
    <3>2. ((q + 1) * PktSize + (r - 1)) \div PktSize = q + 1
      BY <1>0, <1>1, <1>3
    <3> QED BY <3>1, <3>2 DEF PktsPerFrame
  <2> QED BY <1>0, <1>1, <1>3, <2>1, <2>2, StreamAssumption
<1> QED BY <1>1, <1>2, <1>3

(* What stream_process computes from a well-typed stream is well typed;    *)
(* in particular a packet that passes the consistency checks has a slot.   *)
LEMMA Values ==
  ASSUME TypeOK
  PROVE  /\ LostCount \in 0 .. SeqMod - 1
         /\ PktNum \in Nat /\ GotPkts \in Nat /\ ValidPkts \in Nat
         /\ Timestamp \in Nat /\ ClosedSize \in Nat /\ Assembling \in Nat
         /\ EofSize \in Nat
         /\ Consistent => PktNum \in Slots
<1>1. LostCount \in 0 .. SeqMod - 1
  BY StreamAssumption DEF TypeOK, LostCount
<1>2. PktNum \in Nat
  BY <1>1, Geometry DEF TypeOK, PktNum, Closes, Left
<1>3. /\ GotPkts \in Nat /\ ValidPkts \in Nat
      /\ Timestamp \in Nat /\ ClosedSize \in Nat /\ Assembling \in Nat
  BY GeometryAssumption
  DEF TypeOK, GotPkts, ValidPkts, Timestamp, ClosedSize, Assembling
<1>4. EofSize \in Nat
  BY <1>2, Geometry, GeometryAssumption DEF EofSize
<1>5. Consistent => PktNum \in Slots
  BY <1>2, Geometry DEF Consistent, Slots
<1> QED BY <1>1, <1>2, <1>3, <1>4, <1>5

(* The camera's own variables and the count of undamaged packets stay in   *)
(* their ranges.                                                           *)
LEMMA EmitType ==
  ASSUME TypeOK, Emit
  PROVE  frame' \in Nat \ {0} /\ pos' \in Slots /\ cam_seq' \in 0 .. SeqMod - 1
BY StreamAssumption, Geometry DEF TypeOK, Emit, Slots

LEMMA ReceiveType ==
  ASSUME TypeOK, NEW len \in DataLens, Receive(len)
  PROVE  TypeOK'
<1> DEFINE Stream == /\ running' \in BOOLEAN /\ synced' \in BOOLEAN
                     /\ seq' \in 0 .. SeqMod - 1
                     /\ pkt_num' \in Nat /\ got_pkts' \in Nat /\ valid_pkts' \in Nat
                     /\ last_timestamp' \in Nat /\ timestamp' \in Nat
                     /\ raw_buf' \in [Slots -> Packet]
                     /\ got_frame_size' \in Nat
                     /\ gap' \in Nat /\ asm' \in Nat /\ dbuf_end' \in Nat
<1>1. frame' \in Nat \ {0} /\ pos' \in Slots /\ cam_seq' \in 0 .. SeqMod - 1
  BY EmitType DEF Receive, Arrive
<1>2. clean' \in 0 .. CleanCap
  BY Geometry DEF Receive, Arrive, TypeOK, CleanCap
<1>3. CASE Skip
  BY <1>1, <1>2, <1>3 DEF Skip, TypeOK, counters
<1>4. CASE Resync
  BY <1>1, <1>2, <1>4 DEF Resync, TypeOK, counters
<1>5. CASE BadFlag
  BY <1>1, <1>2, <1>5, Values DEF BadFlag, Return, TypeOK
<1>6. CASE Oversize(len)
  BY <1>1, <1>2, <1>6, Values DEF Oversize, Return, TypeOK
<1>7. CASE Store(len)
  <2>1. /\ running' \in BOOLEAN /\ synced' \in BOOLEAN
        /\ seq' \in 0 .. SeqMod - 1
        /\ last_timestamp' \in Nat /\ gap' \in Nat
    BY <1>7, StreamAssumption DEF Store, TypeOK
  <2>2. /\ pkt_num' \in Nat /\ got_pkts' \in Nat /\ valid_pkts' \in Nat
        /\ timestamp' \in Nat /\ got_frame_size' \in Nat /\ asm' \in Nat
    BY <1>7, Values DEF Store, TypeOK
  <2>3. dbuf_end' \in Nat
    BY <1>7, Values, GeometryAssumption DEF Store
  <2>4. raw_buf' \in [Slots -> Packet]
    BY <1>7, Values DEF Store, TypeOK, Packet
  <2> QED BY <1>1, <1>2, <2>1, <2>2, <2>3, <2>4 DEF TypeOK
<1> QED BY <1>3, <1>4, <1>5, <1>6, <1>7 DEF Receive

LEMMA Initial == 0 \in Slots /\ 0 \in 0 .. CleanCap /\ EmptyBuf \in [Slots -> Packet]
<1>1. 0 \in Slots /\ 0 \in 0 .. CleanCap
  BY Geometry DEF Slots, CleanCap
<1>2. NoPacket \in Packet
  BY <1>1 DEF NoPacket, Packet
<1> QED BY <1>1, <1>2 DEF EmptyBuf

LEMMA InitType == Init => TypeOK
<1> SUFFICES ASSUME Init PROVE TypeOK
  OBVIOUS
<1>1. cam_seq \in 0 .. SeqMod - 1 /\ seq \in 0 .. SeqMod - 1
  BY StreamAssumption DEF Init
<1>2. frame \in Nat \ {0} /\ pos \in Slots /\ clean \in 0 .. CleanCap
  BY Initial DEF Init
<1>3. raw_buf \in [Slots -> Packet]
  BY Initial DEF Init
<1> QED BY <1>1, <1>2, <1>3 DEF Init, TypeOK

LEMMA NextType == TypeOK /\ [Next]_vars => TypeOK'
<1> SUFFICES ASSUME TypeOK, [Next]_vars PROVE TypeOK'
  OBVIOUS
<1>1. CASE Lose
  BY <1>1, EmitType, Geometry DEF Lose, TypeOK, counters, CleanCap
<1>2. ASSUME NEW len \in DataLens, Receive(len) PROVE TypeOK'
  BY <1>2, ReceiveType
<1>3. CASE Start
  BY <1>3, Initial DEF Start, TypeOK, counters, camera
<1>4. CASE Stop
  BY <1>4, Initial DEF Stop, TypeOK, counters, camera
<1>5. CASE UNCHANGED vars
  BY <1>5 DEF TypeOK, vars, camera, counters
<1> QED BY <1>1, <1>2, <1>3, <1>4, <1>5 DEF Next

(* Type correctness of the stream, for every geometry. *)
THEOREM TypeCorrect == Spec => []TypeOK
BY InitType, NextType, PTL DEF Spec
-----------------------------------------------------------------------------
(* A packet that passes the checks ends inside the frame, and one that ends *)
(* a frame ends it exactly.                                                *)
LEMMA StoreBounds ==
  ASSUME TypeOK, NEW len \in DataLens, Store(len)
  PROVE  CopyInBounds' /\ WholeFrameSize'
<1>1. len \in Nat
  BY GeometryAssumption
<1>2. /\ PktNum \in Nat /\ PktNum < PktsPerFrame
      /\ Flag(pos) = "eof" => PktNum = PktsPerFrame - 1
  BY Values, Geometry DEF Store, Consistent
<1>3. dbuf_end' = PktNum * PktSize + len /\ len =< SizeAt(PktNum)
  BY DEF Store
<1>4. CASE PktNum = PktsPerFrame - 1
  <2>1. dbuf_end' =< FrameSize
    BY <1>1, <1>3, <1>4, Geometry, GeometryAssumption DEF SizeAt
  <2>2. EofSize = FrameSize
    BY <1>4, Geometry DEF EofSize
  <2> QED BY <2>1, <2>2 DEF Store, CopyInBounds, WholeFrameSize, ClosedSize
<1>5. CASE PktNum # PktsPerFrame - 1
  <2>1. len =< PktSize
    BY <1>3, <1>5 DEF SizeAt
  <2>2. PktNum + 1 =< PktsPerFrame - 1
    BY <1>2, <1>5, Geometry
  <2>3. (PktNum + 1) * PktSize =< (PktsPerFrame - 1) * PktSize
    BY <1>2, <2>2, Geometry, GeometryAssumption
  <2>4. PktNum * PktSize + PktSize =< FrameSize
    BY <1>2, <2>3, Geometry, GeometryAssumption
  <2>5. PktNum * PktSize \in Nat
    BY <1>2, GeometryAssumption
  <2>6. dbuf_end' =< FrameSize
    BY <1>1, <1>3, <2>1, <2>4, <2>5, GeometryAssumption
  <2> QED BY <1>2, <1>5, <2>6 DEF Store, CopyInBounds, WholeFrameSize, ClosedSize
<1> QED BY <1>4, <1>5

LEMMA NextBounds ==
  TypeOK /\ CopyInBounds /\ WholeFrameSize /\ [Next]_vars
    => CopyInBounds' /\ WholeFrameSize'
<1> SUFFICES ASSUME TypeOK, CopyInBounds, WholeFrameSize, [Next]_vars
             PROVE  CopyInBounds' /\ WholeFrameSize'
  OBVIOUS
<1> USE DEF CopyInBounds, WholeFrameSize
<1>1. CASE Lose
  BY <1>1 DEF Lose
<1>2. ASSUME NEW len \in DataLens, Receive(len) PROVE CopyInBounds' /\ WholeFrameSize'
  <2>1. CASE Skip \/ Resync
    BY <2>1 DEF Skip, Resync
  <2>2. CASE BadFlag \/ Oversize(len)
    BY <2>2 DEF BadFlag, Oversize, Return, ClosedSize
  <2>3. CASE Store(len)
    BY <2>3, StoreBounds
  <2> QED BY <1>2, <2>1, <2>2, <2>3 DEF Receive
<1>3. CASE Start \/ Stop
  BY <1>3, GeometryAssumption DEF Start, Stop
<1>4. CASE UNCHANGED vars
  BY <1>4 DEF vars
<1> QED BY <1>1, <1>2, <1>3, <1>4 DEF Next

(* Whatever was lost and whatever lengths arrive, also after a loss that   *)
(* the 8-bit sequence number hides: no copy leaves raw_buf, and what is    *)
(* handed out has the size of a frame.                                     *)
THEOREM Bounded == Spec => [](CopyInBounds /\ WholeFrameSize)
<1>1. Init => CopyInBounds /\ WholeFrameSize
  BY GeometryAssumption DEF Init, CopyInBounds, WholeFrameSize
<1> QED BY <1>1, TypeCorrect, NextBounds, PTL DEF Spec
-----------------------------------------------------------------------------
(* The rest holds as long as no loss is as long as the sequence numbers'   *)
(* cycle.                                                                  *)
NoWrap == MaxGap < SeqMod /\ SeqMod > 1

(* A synced stream knows how many packets it misses, and, when these are   *)
(* few, which packet of which frame comes next.                            *)
Aligned ==
  running /\ synced =>
    /\ gap < SeqMod
    /\ seq + gap = cam_seq \/ seq + gap = cam_seq + SeqMod
    /\ pkt_num < PktsPerFrame
    /\ gap =< MaxLost =>
         \/ pkt_num + gap = pos /\ asm = frame
         \/ pkt_num + gap = pos + PktsPerFrame /\ asm = frame - 1

(* last_timestamp belongs to the frame being assembled once a packet of it *)
(* is stored; timestamp to an earlier one.                                 *)
Timely ==
  /\ asm =< frame /\ last_timestamp =< frame /\ timestamp < frame
  /\ synced => /\ last_timestamp =< asm /\ timestamp < asm
               /\ got_pkts > 0 => last_timestamp = asm

(* The inductive invariant. *)
StreamInv == TypeOK /\ Aligned /\ Timely /\ SlotPlacement /\ TimestampOfFrame

(* An aligned stream puts a packet that reaches the checks in its own slot *)
(* of its own frame, and the flag never disagrees.                         *)
LEMMA InPlace ==
  ASSUME TypeOK, Aligned, Reaches
  PROVE  PktNum = pos /\ Assembling = frame /\ Consistent
<1>1. pos \in Nat /\ pos < PktsPerFrame /\ PktsPerFrame \in Nat
  BY Geometry DEF TypeOK, Slots
<1>2. ASSUME PktNum = pos PROVE Consistent
  BY <1>1, <1>2, Geometry DEF Consistent, Flag
<1>3. CASE ~synced
  <2>1. pos = 0
    BY <1>3, Geometry DEF Reaches, Flag
  <2> QED BY <1>2, <1>3, <2>1 DEF PktNum, Assembling, Closes
<1>4. CASE synced
  <2>1. LostCount = gap /\ gap =< MaxLost
    BY <1>4, StreamAssumption DEF Reaches, Aligned, LostCount, TypeOK
  <2>2. \/ pkt_num + gap = pos /\ asm = frame
        \/ pkt_num + gap = pos + PktsPerFrame /\ asm = frame - 1
    BY <1>4, <2>1 DEF Reaches, Aligned
  <2>3. pkt_num \in Nat /\ pkt_num < PktsPerFrame /\ gap \in Nat
    BY <1>4 DEF Reaches, Aligned, TypeOK
  <2>4. asm \in Nat /\ frame \in Nat
    BY DEF TypeOK
  <2>5. PktNum = pos /\ Assembling = frame
    BY <1>1, <1>4, <2>1, <2>2, <2>3, <2>4 DEF PktNum, Assembling, Closes, Left
  <2> QED BY <1>2, <2>5
<1> QED BY <1>3, <1>4

(* One more packet is sent: the expected numbers move along. *)
LEMMA EmitMoves ==
  ASSUME TypeOK, Emit
  PROVE  /\ pos \in Nat /\ pos < PktsPerFrame
         /\ \/ pos = PktsPerFrame - 1 /\ pos' = 0 /\ frame' = frame + 1
            \/ pos < PktsPerFrame - 1 /\ pos' = pos + 1 /\ frame' = frame
         /\ \/ cam_seq = SeqMod - 1 /\ cam_seq' = 0
            \/ cam_seq < SeqMod - 1 /\ cam_seq' = cam_seq + 1
BY StreamAssumption, Geometry DEF TypeOK, Emit, Slots

LEMMA LoseInv ==
  ASSUME NoWrap, StreamInv, Lose
  PROVE  Aligned' /\ Timely' /\ SlotPlacement' /\ TimestampOfFrame'
<1> USE DEF StreamInv
<1>1. Emit /\ (synced => gap < MaxGap)
  BY DEF Lose
<1>2. Aligned'
  <2> SUFFICES ASSUME running, synced
               PROVE  /\ gap' < SeqMod
                      /\ seq' + gap' = cam_seq' \/ seq' + gap' = cam_seq' + SeqMod
                      /\ pkt_num' < PktsPerFrame
                      /\ gap' =< MaxLost =>
                           \/ pkt_num' + gap' = pos' /\ asm' = frame'
                           \/ pkt_num' + gap' = pos' + PktsPerFrame /\ asm' = frame' - 1
    BY DEF Lose, Aligned
  <2>1. gap' = gap + 1 /\ seq' = seq /\ pkt_num' = pkt_num /\ asm' = asm
    BY DEF Lose, counters
  <2>2. gap' < SeqMod /\ pkt_num' < PktsPerFrame
    BY <1>1, <2>1, StreamAssumption DEF Aligned, NoWrap, TypeOK
  <2>3. seq' + gap' = cam_seq' \/ seq' + gap' = cam_seq' + SeqMod
    BY <1>1, <2>1, <2>2, EmitMoves, StreamAssumption DEF Aligned, TypeOK
  <2>4. gap' =< MaxLost =>
          \/ pkt_num' + gap' = pos' /\ asm' = frame'
          \/ pkt_num' + gap' = pos' + PktsPerFrame /\ asm' = frame' - 1
    BY <1>1, <2>1, EmitMoves, Geometry, StreamAssumption DEF Aligned, TypeOK
  <2> QED BY <2>2, <2>3, <2>4
<1>3. Timely'
  BY <1>1, EmitMoves DEF Lose, Timely, counters, TypeOK
<1>4. SlotPlacement' /\ TimestampOfFrame'
  BY DEF Lose, SlotPlacement, TimestampOfFrame, Handed
<1> QED BY <1>2, <1>3, <1>4

(* Packets that do not reach the checks. *)
LEMMA DropInv ==
  ASSUME NoWrap, StreamInv, Emit, Skip \/ Resync
  PROVE  Aligned' /\ Timely' /\ SlotPlacement' /\ TimestampOfFrame'
<1> USE DEF StreamInv
<1>1. Aligned'
  BY DEF Skip, Resync, Aligned
<1>2. Timely'
  BY EmitMoves DEF Skip, Resync, Timely, counters, TypeOK
<1>3. SlotPlacement' /\ TimestampOfFrame'
  BY DEF Skip, Resync, SlotPlacement, TimestampOfFrame, Handed
<1> QED BY <1>1, <1>2, <1>3

(* A frame that a loss closes goes out under the timestamp of its own      *)
(* packets, the last of which came before; a stream that just synced has   *)
(* none yet.                                                               *)
LEMMA CloseTimes ==
  ASSUME StreamInv, Reaches
  PROVE  /\ Timestamp \in Nat /\ Timestamp < Assembling
         /\ ClosedSize # 0 /\ ValidPkts > 0
              => Timestamp = Assembling - 1 /\ Timestamp > timestamp
         /\ GotPkts > 0 => last_timestamp = Assembling
<1> USE DEF StreamInv
<1>1. Assembling = frame /\ Timestamp \in Nat
  BY InPlace, Values
<1>2. /\ asm \in Nat /\ frame \in Nat /\ timestamp \in Nat
      /\ last_timestamp \in Nat /\ got_pkts \in Nat
  BY DEF TypeOK
<1>3. CASE ~synced
  BY <1>1, <1>2, <1>3 DEF Timestamp, ClosedSize, ValidPkts, GotPkts, Closes, Timely
<1>4. CASE synced /\ Closes
  BY <1>1, <1>2, <1>4
  DEF Timestamp, ClosedSize, ValidPkts, GotPkts, Assembling, Timely
<1>5. CASE synced /\ ~Closes
  BY <1>1, <1>2, <1>5
  DEF Timestamp, ClosedSize, ValidPkts, GotPkts, Assembling, Timely
<1> QED BY <1>3, <1>4, <1>5

(* A dropped packet: it is the one packet missing from now on. *)
LEMMA OversizeInv ==
  ASSUME NoWrap, StreamInv, Emit, NEW len \in DataLens, Oversize(len)
  PROVE  Aligned' /\ Timely' /\ SlotPlacement' /\ TimestampOfFrame'
<1> USE DEF StreamInv
<1>1. /\ Reaches /\ Return /\ synced' = TRUE /\ gap' = 1
      /\ PktNum = pos /\ Assembling = frame
  BY InPlace DEF Oversize
<1>2. /\ seq' = cam_seq /\ pkt_num' = pos /\ got_pkts' = GotPkts
      /\ timestamp' = Timestamp /\ asm' = frame /\ last_timestamp' = last_timestamp
      /\ got_frame_size' = ClosedSize /\ valid_pkts' = ValidPkts /\ raw_buf' = raw_buf
  BY <1>1 DEF Return
<1>3. frame \in Nat /\ cam_seq \in 0 .. SeqMod - 1
  BY DEF TypeOK
<1>4. Aligned'
  BY <1>1, <1>2, <1>3, EmitMoves, Geometry, StreamAssumption DEF Aligned, NoWrap
<1>5. Timely'
  BY <1>1, <1>2, <1>3, EmitMoves, CloseTimes DEF Timely, TypeOK
<1>6. SlotPlacement' /\ TimestampOfFrame'
  BY <1>1, <1>2, CloseTimes DEF SlotPlacement, TimestampOfFrame, Handed, HandedFrame
<1> QED BY <1>4, <1>5, <1>6

(* A stored packet lies in the slot of its position; the end of a frame    *)
(* starts the next one.                                                    *)
LEMMA StoreInv ==
  ASSUME NoWrap, StreamInv, Emit, NEW len \in DataLens, Store(len)
  PROVE  Aligned' /\ Timely' /\ SlotPlacement' /\ TimestampOfFrame'
<1> USE DEF StreamInv
<1>1. /\ Reaches /\ synced' = TRUE /\ gap' = 0 /\ last_timestamp' = frame
      /\ PktNum = pos /\ Assembling = frame
      /\ raw_buf' = [raw_buf EXCEPT ![pos] = [frame |-> frame, pos |-> pos]]
  BY InPlace DEF Store
<1>2. frame \in Nat /\ cam_seq \in 0 .. SeqMod - 1 /\ GotPkts \in Nat /\ pos \in Slots
      /\ timestamp \in Nat
  BY Values DEF TypeOK
<1>3. seq' = cam_seq'
  BY DEF Store, Emit
<1>4. SlotPlacement'
  BY <1>1, <1>2 DEF SlotPlacement, TypeOK
<1>5. CASE pos = PktsPerFrame - 1
  <2>1. Flag(pos) = "eof"
    BY <1>5, Geometry DEF Flag
  <2>2. /\ pkt_num' = 0 /\ got_pkts' = 0 /\ timestamp' = frame /\ asm' = frame + 1
    BY <1>1, <2>1 DEF Store
  <2>3. frame' = frame + 1 /\ pos' = 0
    BY <1>2, <1>5, EmitMoves
  <2>4. Aligned'
    BY <1>1, <1>2, <1>3, <2>2, <2>3, Geometry, StreamAssumption DEF Aligned, NoWrap, Emit
  <2>5. Timely'
    BY <1>1, <1>2, <2>2, <2>3 DEF Timely
  <2>6. TimestampOfFrame'
    BY <1>2, <2>2 DEF TimestampOfFrame, HandedFrame
  <2> QED BY <1>4, <2>4, <2>5, <2>6
<1>6. CASE pos # PktsPerFrame - 1
  <2>1. Flag(pos) # "eof"
    BY <1>6, Geometry DEF Flag
  <2>2. /\ pkt_num' = pos + 1 /\ got_pkts' = GotPkts + 1 /\ timestamp' = Timestamp
        /\ valid_pkts' = ValidPkts /\ got_frame_size' = ClosedSize /\ asm' = frame
    BY <1>1, <2>1 DEF Store
  <2>3. frame' = frame /\ pos' = pos + 1 /\ pos < PktsPerFrame - 1
    BY <1>2, <1>6, EmitMoves, Geometry
  <2>4. Aligned'
    BY <1>1, <1>2, <1>3, <2>2, <2>3, Geometry, StreamAssumption
    DEF Aligned, NoWrap, Emit, Slots
  <2>5. Timely'
    BY <1>1, <1>2, <2>2, <2>3, CloseTimes DEF Timely
  <2>6. TimestampOfFrame'
    BY <1>1, <2>2, CloseTimes DEF TimestampOfFrame, Handed, HandedFrame
  <2> QED BY <1>4, <2>4, <2>5, <2>6
<1> QED BY <1>5, <1>6

LEMMA RestartInv ==
  ASSUME StreamInv, Start \/ Stop
  PROVE  Aligned' /\ Timely' /\ SlotPlacement' /\ TimestampOfFrame'
<1> USE DEF StreamInv
<1>1. raw_buf' = EmptyBuf /\ got_frame_size' = 0
  BY DEF Start, Stop
<1>2. SlotPlacement' /\ TimestampOfFrame'
  BY <1>1 DEF SlotPlacement, TimestampOfFrame, Handed, EmptyBuf, NoPacket
<1>3. Aligned'
  BY DEF Start, Stop, Aligned
<1>4. Timely'
  BY DEF Start, Stop, Timely, counters, camera
<1> QED BY <1>2, <1>3, <1>4

LEMMA NextInv == NoWrap /\ StreamInv /\ [Next]_vars => StreamInv'
<1> SUFFICES ASSUME NoWrap, StreamInv, [Next]_vars
             PROVE  Aligned' /\ Timely' /\ SlotPlacement' /\ TimestampOfFrame'
  BY NextType DEF StreamInv
<1>1. CASE Lose
  BY <1>1, LoseInv
<1>2. ASSUME NEW len \in DataLens, Receive(len)
      PROVE  Aligned' /\ Timely' /\ SlotPlacement' /\ TimestampOfFrame'
  <2>1. Emit
    BY <1>2 DEF Receive, Arrive
  <2>2. ~BadFlag
    BY InPlace DEF BadFlag, StreamInv
  <2> QED BY <1>2, <2>1, <2>2, DropInv, OversizeInv, StoreInv DEF Receive
<1>3. CASE Start \/ Stop
  BY <1>3, RestartInv
<1>4. CASE UNCHANGED vars
  BY <1>4 DEF StreamInv, Aligned, Timely, SlotPlacement, TimestampOfFrame,
              Handed, HandedFrame, vars, camera, counters
<1> QED BY <1>1, <1>2, <1>3, <1>4 DEF Next

LEMMA InitInv == Init => StreamInv
<1> SUFFICES ASSUME Init PROVE Aligned /\ Timely /\ SlotPlacement /\ TimestampOfFrame
  BY InitType DEF StreamInv
<1> QED BY DEF Init, Aligned, Timely, SlotPlacement, TimestampOfFrame, Handed,
               EmptyBuf, NoPacket

(* Every packet is stored in the slot of its position in its frame.        *)
THEOREM Placement == NoWrap => (Spec => []SlotPlacement)
<1> SUFFICES ASSUME NoWrap PROVE Spec => []SlotPlacement
  OBVIOUS
<1>1. StreamInv /\ [Next]_vars => StreamInv'
  BY NextInv
<1>2. StreamInv => SlotPlacement
  BY DEF StreamInv
<1> QED BY InitInv, <1>1, <1>2, PTL DEF Spec

(* The timestamp the callback gets belongs to the frame it gets.           *)
THEOREM TimestampCorrect == NoWrap => (Spec => []TimestampOfFrame)
<1> SUFFICES ASSUME NoWrap PROVE Spec => []TimestampOfFrame
  OBVIOUS
<1>1. StreamInv /\ [Next]_vars => StreamInv'
  BY NextInv
<1>2. StreamInv => TimestampOfFrame
  BY DEF StreamInv
<1> QED BY InitInv, <1>1, <1>2, PTL DEF Spec

LEMMA StepIncreases ==
  ASSUME StreamInv, [Next]_vars, Handed', valid_pkts' > 0, ~UNCHANGED vars
  PROVE  timestamp' > timestamp
<1> USE DEF StreamInv
<1>1. PICK len \in DataLens : Receive(len)
  BY DEF Next, Lose, Start, Stop, Handed
<1>2. Reaches /\ ~BadFlag
  BY <1>1, InPlace DEF Receive, Skip, Resync, BadFlag, Oversize, Store, Handed
<1>3. timestamp \in Nat /\ frame \in Nat
  BY DEF TypeOK
<1>4. CASE Oversize(len)
  BY <1>2, <1>4, CloseTimes DEF Oversize, Return, Handed
<1>5. CASE Store(len)
  BY <1>2, <1>3, <1>5, CloseTimes DEF Store, Timely, Handed
<1> QED BY <1>1, <1>2, <1>4, <1>5 DEF Receive, Skip, Resync, Handed

(* The timestamps of the frames handed out strictly increase.              *)
THEOREM TimestampsGrow == NoWrap => (Spec => TimestampsIncrease)
<1> SUFFICES ASSUME NoWrap PROVE Spec => TimestampsIncrease
  OBVIOUS
<1>1. StreamInv /\ [Next]_vars => StreamInv'
  BY NextInv
<1>2. StreamInv /\ [Next]_vars => [Handed' /\ valid_pkts' > 0 => timestamp' > timestamp]_vars
  BY StepIncreases
<1> QED BY InitInv, <1>1, <1>2, PTL DEF Spec, TimestampsIncrease
-----------------------------------------------------------------------------
\* The slots of a buffer that hold packets of frame f.
FilledIn(buf, f) == {k \in Slots : buf[k].frame = f}

(* Which frames lie in raw_buf: of the one being sent only packets already *)
(* sent, none newer than the one being assembled, and of that one as many  *)
(* as got_pkts says.                                                       *)
Counting ==
  /\ \A k \in Slots : /\ raw_buf[k].frame =< frame
                      /\ raw_buf[k].frame = frame => k < pos
  /\ running /\ synced => /\ \A k \in Slots : raw_buf[k].frame =< asm
                          /\ Cardinality(FilledIn(raw_buf, asm)) = got_pkts

LEMMA FilledFinite ==
  ASSUME NEW buf, NEW f
  PROVE  IsFiniteSet(FilledIn(buf, f)) /\ Cardinality(FilledIn(buf, f)) \in Nat
<1>1. IsFiniteSet(Slots)
  BY Geometry, FS_Interval DEF Slots
<1>2. FilledIn(buf, f) \subseteq Slots
  BY DEF FilledIn
<1> QED BY <1>1, <1>2, FS_Subset, FS_CardinalityType

LEMMA FilledNone ==
  ASSUME NEW buf, NEW f, \A k \in Slots : buf[k].frame # f
  PROVE  Cardinality(FilledIn(buf, f)) = 0
<1>1. FilledIn(buf, f) = {}
  BY DEF FilledIn
<1> QED BY <1>1, FS_EmptySet

(* Storing a packet of frame g in slot p adds one to the count of g, ...   *)
LEMMA FilledStore ==
  ASSUME NEW buf \in [Slots -> Packet], NEW p \in Slots, NEW g \in Nat, buf[p].frame # g
  PROVE  Cardinality(FilledIn([buf EXCEPT ![p] = [frame |-> g, pos |-> p]], g))
           = Cardinality(FilledIn(buf, g)) + 1
<1> DEFINE new == [buf EXCEPT ![p] = [frame |-> g, pos |-> p]]
<1>1. FilledIn(new, g) = FilledIn(buf, g) \cup {p} /\ p \notin FilledIn(buf, g)
  BY DEF FilledIn
<1> QED BY <1>1, FilledFinite, FS_AddElement

(* ... and takes at most one from that of another frame.                   *)
LEMMA FilledOther ==
  ASSUME NEW buf \in [Slots -> Packet], NEW p \in Slots, NEW g \in Nat, NEW f, f # g
  PROVE  Cardinality(FilledIn([buf EXCEPT ![p] = [frame |-> g, pos |-> p]], f))
           \in {Cardinality(FilledIn(buf, f)) - 1, Cardinality(FilledIn(buf, f))}
<1> DEFINE new == [buf EXCEPT ![p] = [frame |-> g, pos |-> p]]
<1>1. FilledIn(new, f) = FilledIn(buf, f) \ {p}
  BY DEF FilledIn
<1>2. CASE p \in FilledIn(buf, f)
  BY <1>1, <1>2, FilledFinite, FS_RemoveElement
<1>3. CASE p \notin FilledIn(buf, f)
  <2>1. FilledIn(new, f) = FilledIn(buf, f)
    BY <1>1, <1>3
  <2> QED BY <2>1
<1> QED BY <1>2, <1>3

(* The counts when a packet reaches the checks, after its losses have been *)
(* handled: those of its own frame, and of one the loss closed.            *)
LEMMA CountsBefore ==
  ASSUME StreamInv, Counting, Reaches
  PROVE  /\ raw_buf[pos].frame # frame
         /\ Cardinality(FilledIn(raw_buf, frame)) = GotPkts
         /\ ClosedSize # 0 => Closes /\ ValidPkts = Cardinality(FilledIn(raw_buf, frame - 1))
<1> USE DEF StreamInv
<1>1. PktNum = pos /\ Assembling = frame
  BY InPlace
<1>2. frame \in Nat /\ asm \in Nat /\ pos \in Slots /\ pos \in Nat /\ running
  BY DEF TypeOK, Slots, Reaches
<1>3. \A k \in Slots : raw_buf[k].frame \in Nat
  BY DEF TypeOK, Packet
<1>4. raw_buf[pos].frame # frame
  BY <1>2 DEF Counting
<1>5. CASE ~synced
  <2>1. pos = 0
    BY <1>5, Geometry DEF Reaches, Flag
  <2>2. \A k \in Slots : raw_buf[k].frame # frame
    BY <2>1 DEF Counting, Slots
  <2> QED BY <1>4, <1>5, <2>2, FilledNone DEF GotPkts, ClosedSize, Closes
<1>6. CASE synced /\ Closes
  <2>1. asm = frame - 1
    BY <1>1, <1>2, <1>6 DEF Assembling
  <2>2. \A k \in Slots : raw_buf[k].frame # frame
    BY <1>2, <1>3, <1>6, <2>1 DEF Counting
  <2>3. ValidPkts = got_pkts /\ GotPkts = 0
    BY <1>6 DEF GotPkts, ValidPkts
  <2> QED BY <1>2, <1>4, <1>6, <2>1, <2>2, <2>3, FilledNone DEF Counting
<1>7. CASE synced /\ ~Closes
  BY <1>1, <1>2, <1>4, <1>7 DEF Assembling, GotPkts, ClosedSize, Counting
<1> QED BY <1>5, <1>6, <1>7

LEMMA OversizeCounts ==
  ASSUME StreamInv, Counting, Emit, NEW len \in DataLens, Oversize(len)
  PROVE  Counting' /\ CountsFilled'
<1> USE DEF StreamInv
<1>1. /\ Reaches /\ asm' = frame /\ got_pkts' = GotPkts /\ raw_buf' = raw_buf
      /\ got_frame_size' = ClosedSize /\ valid_pkts' = ValidPkts
  BY InPlace DEF Oversize, Return
<1>2. frame \in Nat /\ pos \in Nat /\ \A k \in Slots : raw_buf[k].frame \in Nat
  BY DEF TypeOK, Packet, Slots
<1>3. Counting'
  <2>1. \A k \in Slots : raw_buf'[k].frame =< frame' /\ (raw_buf'[k].frame = frame' => k < pos')
    BY <1>1, <1>2, EmitMoves DEF Counting, Slots
  <2>2. \A k \in Slots : raw_buf'[k].frame =< asm'
    BY <1>1 DEF Counting
  <2>3. Cardinality(FilledIn(raw_buf', asm')) = got_pkts'
    BY <1>1, CountsBefore
  <2> QED BY <2>1, <2>2, <2>3 DEF Counting
<1>4. CountsFilled'
  BY <1>1, CountsBefore DEF CountsFilled, Filled, FilledIn, Handed, HandedFrame
<1> QED BY <1>3, <1>4

LEMMA StoreCounts ==
  ASSUME StreamInv, Counting, Emit, NEW len \in DataLens, Store(len)
  PROVE  Counting' /\ CountsFilled'
<1> USE DEF StreamInv
<1>1. /\ Reaches /\ PktNum = pos /\ Assembling = frame
      /\ raw_buf' = [raw_buf EXCEPT ![pos] = [frame |-> frame, pos |-> pos]]
  BY InPlace DEF Store
<1>2. /\ frame \in Nat /\ pos \in Nat /\ pos \in Slots /\ GotPkts \in Nat /\ ValidPkts \in Nat
      /\ raw_buf \in [Slots -> Packet] /\ frame # frame - 1 /\ frame # frame + 1
  BY Values DEF TypeOK, Slots
<1>3. \A k \in Slots : raw_buf'[k].frame = IF k = pos THEN frame ELSE raw_buf[k].frame
  BY <1>1, <1>2
<1>4. \A k \in Slots : raw_buf[k].frame \in Nat
  BY <1>2 DEF Packet
<1>5. /\ \A k \in Slots : raw_buf'[k].frame =< frame
      /\ \A k \in Slots : raw_buf'[k].frame = frame => k =< pos
  BY <1>2, <1>3, <1>4 DEF Counting, Slots
<1>6. \A k \in Slots : raw_buf'[k].frame =< frame' /\ (raw_buf'[k].frame = frame' => k < pos')
  BY <1>2, <1>3, <1>4, <1>5, EmitMoves DEF Slots
<1>7. /\ Cardinality(FilledIn(raw_buf', frame)) = GotPkts + 1
      /\ Cardinality(FilledIn(raw_buf', frame - 1)) \in
           {Cardinality(FilledIn(raw_buf, frame - 1)) - 1, Cardinality(FilledIn(raw_buf, frame - 1))}
  <2>1. raw_buf[pos].frame # frame /\ Cardinality(FilledIn(raw_buf, frame)) = GotPkts
    BY <1>1, CountsBefore
  <2> DEFINE earlier == frame - 1
  <2>2. earlier # frame
    BY <1>2
  <2> HIDE DEF earlier
  <2>3. /\ Cardinality(FilledIn(raw_buf', frame)) = Cardinality(FilledIn(raw_buf, frame)) + 1
        /\ Cardinality(FilledIn(raw_buf', earlier)) \in
             {Cardinality(FilledIn(raw_buf, earlier)) - 1, Cardinality(FilledIn(raw_buf, earlier))}
    BY <1>1, <1>2, <2>1, <2>2, FilledStore, FilledOther
  <2> QED BY <2>1, <2>3 DEF earlier
<1>8. CASE pos = PktsPerFrame - 1
  <2>1. Flag(pos) = "eof"
    BY <1>8, Geometry DEF Flag
  <2>2. /\ got_pkts' = 0 /\ asm' = frame + 1 /\ valid_pkts' = GotPkts + 1
    BY <1>1, <2>1 DEF Store
  <2>3. \A k \in Slots : raw_buf'[k].frame =< asm' /\ raw_buf'[k].frame # asm'
    <3> SUFFICES ASSUME NEW k \in Slots
                 PROVE  raw_buf'[k].frame =< frame + 1 /\ raw_buf'[k].frame # frame + 1
      BY <2>2
    <3>1. raw_buf'[k].frame \in Nat
      BY <1>2, <1>3, <1>4
    <3>2. raw_buf'[k].frame =< frame
      BY <1>5
    <3>3. frame \in Nat
      BY <1>2
    <3> HIDE DEF Counting
    <3> QED
      <4>1. PICK f : f = raw_buf'[k].frame
        OBVIOUS
      <4>2. f \in Nat /\ f =< frame
        BY <3>1, <3>2, <4>1
      <4>3. f =< frame + 1 /\ f # frame + 1
        BY <3>3, <4>2
      <4> QED BY <4>1, <4>3
  <2>4. Counting'
    BY <1>6, <2>2, <2>3, FilledNone DEF Counting
  <2>5. HandedFrame' = frame
    BY <1>2, <2>2 DEF HandedFrame
  <2>6. CountsFilled'
    BY <1>7, <2>2, <2>5 DEF CountsFilled, Filled, FilledIn
  <2> QED BY <2>4, <2>6
<1>9. CASE pos # PktsPerFrame - 1
  <2>1. Flag(pos) # "eof"
    BY <1>9, Geometry DEF Flag
  <2>2. /\ got_pkts' = GotPkts + 1 /\ valid_pkts' = ValidPkts
        /\ got_frame_size' = ClosedSize /\ asm' = frame
    BY <1>1, <2>1 DEF Store
  <2>3. Counting'
    BY <1>5, <1>6, <1>7, <2>2 DEF Counting
  <2>4. ClosedSize # 0 => Cardinality(FilledIn(raw_buf', frame - 1)) \in {ValidPkts - 1, ValidPkts}
    BY <1>1, <1>7, CountsBefore
  <2>5. CountsFilled'
    BY <2>2, <2>4 DEF CountsFilled, Filled, FilledIn, Handed, HandedFrame
  <2> QED BY <2>3, <2>5
<1> QED BY <1>8, <1>9

LEMMA NextCounts ==
  NoWrap /\ StreamInv /\ Counting /\ CountsFilled /\ [Next]_vars => Counting' /\ CountsFilled'
<1> SUFFICES ASSUME NoWrap, StreamInv, Counting, CountsFilled, [Next]_vars
             PROVE  Counting' /\ CountsFilled'
  OBVIOUS
<1>1. frame \in Nat \ {0} /\ \A k \in Slots : k \in Nat /\ raw_buf[k].frame \in Nat
  BY DEF StreamInv, TypeOK, Packet, Slots
<1>2. CASE Lose \/ (Emit /\ (Skip \/ Resync))
  <2>1. Emit /\ raw_buf' = raw_buf /\ asm' = asm /\ got_pkts' = got_pkts /\ got_frame_size' = 0
    BY <1>2 DEF Lose, Skip, Resync, counters
  <2>2. running' = running /\ (synced' => synced)
    BY <1>2 DEF Lose, Skip, Resync
  <2>3. \A k \in Slots : raw_buf'[k].frame =< frame' /\ (raw_buf'[k].frame = frame' => k < pos')
    BY <1>1, <2>1, EmitMoves DEF Counting, StreamInv
  <2> QED BY <2>1, <2>2, <2>3 DEF Counting, CountsFilled, Handed
<1>3. ASSUME NEW len \in DataLens, Receive(len) PROVE Counting' /\ CountsFilled'
  <2>1. Emit
    BY <1>3 DEF Receive, Arrive
  <2>2. ~BadFlag
    BY InPlace DEF BadFlag, StreamInv
  <2> QED BY <1>2, <1>3, <2>1, <2>2, OversizeCounts, StoreCounts DEF Receive
<1>4. CASE Start \/ Stop
  <2>1. raw_buf' = EmptyBuf /\ got_frame_size' = 0 /\ frame' = frame /\ pos' = pos
    BY <1>4 DEF Start, Stop, camera
  <2>2. ~(running' /\ synced')
    BY <1>4 DEF Start, Stop
  <2> QED BY <1>1, <2>1, <2>2 DEF Counting, CountsFilled, Handed, EmptyBuf, NoPacket
<1>5. CASE UNCHANGED vars
  BY <1>5 DEF Counting, FilledIn, CountsFilled, Filled, Handed, HandedFrame, vars, camera, counters
<1> QED BY <1>2, <1>3, <1>4, <1>5 DEF Next

(* valid_pkts, which decides whether a frame counts as valid, is the       *)
(* number of slots the frame that is handed out filled, but for the one    *)
(* that the packet that closed it may have taken.                          *)
THEOREM CountsCorrect == NoWrap => (Spec => []CountsFilled)
<1> SUFFICES ASSUME NoWrap PROVE Spec => []CountsFilled
  OBVIOUS
<1>1. Init => Counting /\ CountsFilled
  BY DEF Init, Counting, CountsFilled, Handed, EmptyBuf, NoPacket
<1>2. StreamInv /\ [Next]_vars => StreamInv'
  BY NextInv
<1>3. StreamInv /\ Counting /\ CountsFilled /\ [Next]_vars => Counting' /\ CountsFilled'
  BY NextCounts
<1> QED BY InitInv, <1>1, <1>2, <1>3, PTL DEF Spec
-----------------------------------------------------------------------------
(* What a row of undamaged packets has brought about, whatever went before *)
(* it: after an end of frame the stream is either unsynced or expects the  *)
(* next frame, and from the first start of frame that follows one it       *)
(* stores every packet.                                                    *)
Recovering ==
  /\ clean > 0 => running
  /\ clean > 0 /\ pos = 0 /\ synced => seq = cam_seq /\ pkt_num = 0 /\ got_pkts = 0
  /\ clean > pos /\ pos > 0 =>
       /\ synced /\ seq = cam_seq /\ pkt_num = pos /\ got_pkts = pos
       /\ \A k \in Slots : k < pos => raw_buf[k] = [frame |-> frame, pos |-> k]

(* An undamaged packet after a row of them that is long enough is stored   *)
(* where it belongs.                                                       *)
LEMMA CleanStored ==
  ASSUME TypeOK, Recovering, running, pos = 0 \/ clean > pos, clean > 0,
         NEW len \in DataLens, len =< SizeAt(pos),
         Skip \/ Resync \/ BadFlag \/ Oversize(len) \/ Store(len)
  PROVE  Store(len) /\ PktNum = pos /\ GotPkts = pos /\ ~Closes
<1>1. pos \in Nat /\ pos < PktsPerFrame /\ len \in Nat /\ SizeAt(pos) \in Nat
  BY Geometry, GeometryAssumption DEF TypeOK, Slots, SizeAt
<1>2. synced => seq = cam_seq /\ pkt_num = pos /\ got_pkts = pos
  BY <1>1 DEF Recovering
<1>3. synced => LostCount = 0
  BY <1>2, StreamAssumption DEF LostCount, TypeOK
<1>4. ~synced => Flag(pos) = "sof" /\ pos = 0
  <2>1. ~synced => pos = 0
    BY <1>1 DEF Recovering
  <2> QED BY <2>1, Geometry DEF Flag
<1>5. PktNum = pos /\ GotPkts = pos /\ ~Closes
  BY <1>1, <1>2, <1>3, <1>4 DEF PktNum, GotPkts, Closes
<1>6. Consistent
  BY <1>1, <1>5, Geometry DEF Consistent, Flag
<1>7. ~Skip /\ ~BadFlag
  BY <1>4, <1>6 DEF Skip, BadFlag
<1>8. ASSUME Resync PROVE FALSE
  BY <1>3, <1>8, StreamAssumption DEF Resync
<1>9. ~Oversize(len)
  BY <1>1, <1>5 DEF Oversize
<1> QED BY <1>5, <1>7, <1>8, <1>9

(* An undamaged end of frame leaves no doubt about what comes next.        *)
LEMMA CleanEnd ==
  ASSUME TypeOK, pos = PktsPerFrame - 1, running, Emit,
         NEW len \in DataLens, len =< SizeAt(pos),
         Skip \/ Resync \/ BadFlag \/ Oversize(len) \/ Store(len)
  PROVE  synced' => seq' = cam_seq' /\ pkt_num' = 0 /\ got_pkts' = 0
<1>1. Flag(pos) = "eof" /\ len \in Nat /\ SizeAt(pos) \in Nat
  BY Geometry, GeometryAssumption DEF Flag, SizeAt
<1>2. Consistent => PktNum = pos
  BY <1>1 DEF Consistent
<1>3. CASE Skip \/ Resync \/ BadFlag
  BY <1>1, <1>3 DEF Skip, Resync, BadFlag
<1>4. ~Oversize(len)
  BY <1>1, <1>2 DEF Oversize
<1>5. CASE Store(len)
  BY <1>1, <1>5 DEF Store, Emit
<1> QED BY <1>3, <1>4, <1>5

LEMMA ReceiveRecovers ==
  ASSUME TypeOK, Recovering, NEW len \in DataLens, Receive(len)
  PROVE  Recovering' /\ Recovers'
<1>1. /\ Emit
      /\ Skip \/ Resync \/ BadFlag \/ Oversize(len) \/ Store(len)
      /\ running' = running
  BY DEF Receive, Arrive, Skip, Resync, BadFlag, Oversize, Store, Return
<1>2. pos \in Nat /\ pos \in Slots /\ frame \in Nat /\ clean \in Nat /\ len \in Nat
  BY GeometryAssumption DEF TypeOK, Slots, CleanCap
<1>3. CASE ~(len =< SizeAt(pos) /\ running)
  <2>1. clean' = 0 /\ pos' \in Nat
    BY <1>1, <1>2, <1>3, EmitMoves DEF Receive, Arrive
  <2> QED BY <2>1, Geometry DEF Recovering, Recovers
<1>4. CASE len =< SizeAt(pos) /\ running
  <2>1. clean' > 0 /\ clean' \in Nat /\ clean' =< clean + 1
    BY <1>2, <1>4, Geometry DEF Receive, Arrive, CleanCap
  <2>2. CASE pos = PktsPerFrame - 1
    <3>1. pos' = 0 /\ frame' = frame + 1
      BY <1>1, <2>2, EmitMoves
    <3>2. synced' => seq' = cam_seq' /\ pkt_num' = 0 /\ got_pkts' = 0
      BY <1>1, <1>4, <2>2, CleanEnd
    <3>3. Recovering'
      BY <1>1, <1>4, <3>1, <3>2 DEF Recovering
    <3>4. ASSUME clean' > PktsPerFrame PROVE InStep'
      <4>1. clean > pos /\ clean > 0 /\ pos > 0
        BY <1>2, <2>1, <2>2, <3>4, Geometry
      <4>2. Store(len) /\ PktNum = pos /\ GotPkts = pos
        BY <1>1, <1>4, <4>1, CleanStored
      <4>3. /\ synced' /\ got_frame_size' = EofSize /\ valid_pkts' = PktsPerFrame
            /\ timestamp' = frame
            /\ raw_buf' = [raw_buf EXCEPT ![pos] = [frame |-> frame, pos |-> pos]]
        BY <2>2, <4>2, Geometry DEF Store, Flag
      <4>4. EofSize = FrameSize
        BY <2>2, <4>2, Geometry DEF EofSize
      <4>5. \A k \in Slots : raw_buf'[k] = [frame |-> frame, pos |-> k]
        BY <1>2, <2>2, <4>1, <4>3, Geometry DEF Recovering, Slots, TypeOK
      <4> QED BY <1>2, <3>1, <4>3, <4>4, <4>5, GeometryAssumption DEF InStep, Handed
    <3> QED BY <3>3, <3>4 DEF Recovers
  <2>3. CASE pos < PktsPerFrame - 1
    <3>1. pos' = pos + 1 /\ frame' = frame
      BY <1>1, <2>3, EmitMoves
    <3>2. ASSUME clean' > pos'
          PROVE  /\ synced' /\ seq' = cam_seq' /\ pkt_num' = pos' /\ got_pkts' = pos'
                 /\ \A k \in Slots : k < pos' => raw_buf'[k] = [frame |-> frame', pos |-> k]
      <4>1. clean > pos /\ clean > 0
        BY <1>2, <2>1, <3>1, <3>2
      <4>2. Store(len) /\ PktNum = pos /\ GotPkts = pos
        BY <1>1, <1>4, <4>1, CleanStored
      <4>3. Flag(pos) # "eof"
        BY <1>2, <2>3, Geometry DEF Flag
      <4>4. /\ synced' /\ seq' = cam_seq' /\ pkt_num' = pos + 1 /\ got_pkts' = pos + 1
            /\ raw_buf' = [raw_buf EXCEPT ![pos] = [frame |-> frame, pos |-> pos]]
        BY <1>1, <4>2, <4>3 DEF Store, Emit
      <4> QED BY <1>2, <3>1, <4>1, <4>4 DEF Recovering, Slots, TypeOK
    <3>3. Recovering'
      BY <1>1, <1>2, <1>4, <3>1, <3>2 DEF Recovering
    <3>4. Recovers'
      BY <1>2, <2>1, <2>3, <3>1, <3>2, Geometry DEF Recovers, InStep
    <3> QED BY <3>3, <3>4
  <2> QED BY <1>2, <2>2, <2>3, Geometry DEF Slots
<1> QED BY <1>3, <1>4

LEMMA NextRecovers ==
  TypeOK /\ Recovering /\ Recovers /\ [Next]_vars => Recovering' /\ Recovers'
<1> SUFFICES ASSUME TypeOK, Recovering, Recovers, [Next]_vars
             PROVE  Recovering' /\ Recovers'
  OBVIOUS
<1>1. CASE Lose \/ Start \/ Stop
  <2>1. clean' = 0 /\ pos' \in Nat
    BY <1>1, NextType DEF Lose, Start, Stop, TypeOK, Slots
  <2> QED BY <2>1, Geometry DEF Recovering, Recovers
<1>2. CASE UNCHANGED vars
  BY <1>2 DEF Recovering, Recovers, InStep, Handed, vars, camera, counters
<1> QED BY <1>1, <1>2, ReceiveRecovers DEF Next

(* After one packet more than a frame's worth arrived undamaged the stream *)
(* is in step with the camera, whatever was lost before: also after a loss *)
(* of a multiple of 256 packets, which stream_process does not notice.     *)
THEOREM RecoversAlways == Spec => []Recovers
<1>1. Init => Recovering /\ Recovers
  BY Geometry DEF Init, Recovering, Recovers
<1> QED BY <1>1, TypeCorrect, NextRecovers, PTL DEF Spec
=============================================================================
