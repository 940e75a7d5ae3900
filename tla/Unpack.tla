------------------------------- MODULE Unpack --------------------------------
(***************************************************************************)
(* convert_packed_to_16bit and convert_packed_to_8bit (cameras.c): numbers *)
(* of vw bits, packed with the first bit first, are unpacked through a     *)
(* buffer of 32 bits.  The bits themselves do not matter: they are known   *)
(* by their positions in the input, and a run of them is [from, to).       *)
(***************************************************************************)
EXTENDS Integers

CONSTANTS Widths, Lens       (* what they are called with                    *)

VARIABLES
  vw, len,                   (* parameters                                   *)
  eight,                     (* convert_packed_to_8bit                       *)
  raw,                       (* bytes read                                   *)
  buffer, bitsIn,            (* bits that the buffer holds; not used yet     *)
  frame, pixel               (* numbers written, and the bits of the last    *)

vars == <<vw, len, eight, raw, buffer, bitsIn, frame, pixel>>

Larger(a, b) == IF a > b THEN a ELSE b

Init ==
  /\ vw \in Widths /\ len \in Lens /\ eight \in BOOLEAN
  /\ raw = 0 /\ buffer = [from |-> 0, to |-> 0] /\ bitsIn = 0
  /\ frame = 0 /\ pixel = [from |-> 0, to |-> 0]

Read_Always ==
  /\ frame < len /\ bitsIn =< vw
  /\ raw' = raw + 1 /\ bitsIn' = bitsIn + 8
  /\ buffer' = [from |-> Larger(buffer.from, buffer.to + 8 - 32), to |-> buffer.to + 8]
  /\ UNCHANGED <<vw, len, eight, frame, pixel>>
Read ==
  /\ frame < len /\ bitsIn < vw
  /\ raw' = raw + 1 /\ bitsIn' = bitsIn + 8
  /\ buffer' = [from |-> Larger(buffer.from, buffer.to + 8 - 32), to |-> buffer.to + 8]
  /\ UNCHANGED <<vw, len, eight, frame, pixel>>

(* A shift to the right and a mask; bits before the buffer are lost.       *)
Bits(from, to) == [from |-> Larger(buffer.from, from), to |-> to]

Write ==
  /\ frame < len /\ bitsIn >= vw
  /\ bitsIn' = bitsIn - vw /\ frame' = frame + 1
  /\ LET first == buffer.to - bitsIn
     IN  pixel' = Bits(first, IF eight THEN first + 8 ELSE first + vw)
  /\ UNCHANGED <<vw, len, eight, raw, buffer>>

Next == Read \/ Write
-----------------------------------------------------------------------------
TypeOK ==
  /\ vw \in Widths /\ len \in Lens /\ eight \in BOOLEAN /\ raw \in Nat /\ bitsIn \in Nat
  /\ frame \in 0 .. len /\ buffer.from \in Nat /\ buffer.to \in Nat

(* Each number has all of its bits, or the first eight, and no others; and *)
(* no byte is read after the one that ends the last number.                *)
Unpacked ==
  /\ frame > 0 =>
       /\ pixel.from = (frame - 1) * vw
       /\ pixel.to = pixel.from + (IF eight THEN 8 ELSE vw)
  /\ 8 * raw < len * vw + 8
=============================================================================
