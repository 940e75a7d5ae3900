-------------------------------- MODULE Bayer --------------------------------
(***************************************************************************)
(* convert_bayer_to_rgb (cameras.c): each pixel of the sensor has one      *)
(* colour, and the others come from its neighbours, mirrored at the edges. *)
(* The code goes over three lines with three pointers, and keeps three     *)
(* values of the line, and three averages of the lines around it, in       *)
(* shift-buffers.                                                          *)
(*                                                                         *)
(* A value is known by where it comes from: it gives each position in      *)
(* raw_buf a weight, in quarters.  Rounding is left out.                   *)
(***************************************************************************)
EXTENDS Integers, Sequences, FiniteSets

CONSTANTS Sizes              (* of the frame, <<columns, lines>>, both even, *)
                             (* with four lines at least; 640 by 480 there   *)

VARIABLES
  size, x, y,
  prevLine, curLine, nextLine,   (* positions in raw_buf                     *)
  hVals, vSums,              (* previous, current and next value             *)
  rgb                        (* the pixel that was written last              *)

vars == <<size, x, y, prevLine, curLine, nextLine, hVals, vSums, rgb>>
lines == <<prevLine, curLine, nextLine>>

Columns == size[1]
Lines == size[2]

At(p) == [q \in {p} |-> 4]
Weight(v, p) == IF p \in DOMAIN v THEN v[p] ELSE 0
Average(v, w) == [p \in DOMAIN v \cup DOMAIN w |-> (Weight(v, p) + Weight(w, p)) \div 2]

Init ==
  /\ size \in Sizes /\ x = -1 /\ y = 0
  /\ prevLine = 0 /\ curLine = 0 /\ nextLine = Columns
  /\ hVals = <<>> /\ vSums = <<>> /\ rgb = <<>>

(* The first column mirrors the second.                                    *)
StartLine ==
  /\ x = -1 /\ y < Lines
  /\ LET prev == IF y = 0 THEN nextLine
                 ELSE IF y < Lines - 1 THEN curLine - Columns ELSE prevLine
         next == IF y = Lines - 1 THEN prevLine ELSE nextLine
     IN  /\ hVals' = <<At(curLine + 1), At(curLine)>>
         /\ vSums' = <<Average(At(prev + 1), At(next + 1)), Average(At(prev), At(next))>>
         /\ prevLine' = prev + 1 /\ curLine' = curLine + 1 /\ nextLine' = next + 1
  /\ x' = 0 /\ UNCHANGED <<size, y, rgb>>

(* The four configurations.                                                *)
Pixel(h, v) ==
  LET hSum == Average(h[1], h[3])
      green == Average(hSum, v[2])
      diagonal == Average(v[1], v[3])
  IN  CASE y % 2 = 0 /\ x % 2 = 0 -> <<hSum, h[2], v[2]>>
        [] y % 2 = 0 /\ x % 2 = 1 -> <<h[2], green, diagonal>>
        [] y % 2 = 1 /\ x % 2 = 0 -> <<diagonal, green, h[2]>>
        [] OTHER                  -> <<v[2], h[2], hSum>>

Column ==
  /\ x \in 0 .. Columns - 2
  /\ LET h == Append(hVals, At(curLine))
         v == Append(vSums, Average(At(prevLine), At(nextLine)))
     IN  rgb' = Pixel(h, v) /\ hVals' = Tail(h) /\ vSums' = Tail(v)
  /\ prevLine' = prevLine + 1 /\ curLine' = curLine + 1 /\ nextLine' = nextLine + 1
  /\ x' = x + 1 /\ UNCHANGED <<size, y>>

(* The last column mirrors the one before it.                              *)
LastColumn ==
  /\ x = Columns - 1
  /\ rgb' = Pixel(Append(hVals, hVals[1]), Append(vSums, vSums[1]))
  /\ x' = -1 /\ y' = y + 1 /\ UNCHANGED <<size, lines, hVals, vSums>>

Next == StartLine \/ Column \/ LastColumn
-----------------------------------------------------------------------------
TypeOK ==
  /\ size \in Sizes /\ x \in -1 .. Columns - 1 /\ y \in 0 .. Lines
  /\ {prevLine, curLine, nextLine} \subseteq 0 .. Columns * Lines

(* What a pixel should be: of the colour that is its own, its value; of    *)
(* any other, the average of those neighbours that have it, in an image    *)
(* that goes on mirrored.                                                  *)
Colour(line, column) ==
  IF (line + column) % 2 = 0 THEN 2 ELSE IF line % 2 = 0 THEN 1 ELSE 3
Mirror(i, n) == IF i < 0 THEN 1 ELSE IF i = n THEN n - 2 ELSE i
Place(n) == Columns * Mirror(n[1], Lines) + Mirror(n[2], Columns)
Demosaic(line, column, c) ==
  LET around == {n \in (line - 1 .. line + 1) \X (column - 1 .. column + 1) :
                   Colour(Mirror(n[1], Lines), Mirror(n[2], Columns)) = c}
      of == IF Colour(line, column) = c THEN {<<line, column>>} ELSE around
  IN  [p \in {Place(n) : n \in of} |->
         (4 * Cardinality({n \in of : Place(n) = p})) \div Cardinality(of)]

(* The pixel that was written last is what it should be.                   *)
Demosaiced ==
  rgb # <<>> =>
    LET last == IF x > 0 THEN <<y, x - 1>> ELSE <<y - 1, Columns - 1>>
    IN  \A c \in 1 .. 3 : rgb[c] = Demosaic(last[1], last[2], c)
=============================================================================
