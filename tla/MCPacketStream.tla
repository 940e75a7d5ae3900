--------------------------- MODULE MCPacketStream ---------------------------
(* Values for the model checker: four packets per frame, the last one      *)
(* shorter; payload lengths below, at and above what a slot holds.         *)
EXTENDS PacketStream

MCDataLens == {1, 2, 3, 4}
=============================================================================
