------------------------------- MODULE MCParts -------------------------------
(***************************************************************************)
(* Small instances of all parts.                                           *)
(***************************************************************************)
EXTENDS Parts

Two == {1, 2}
One == {0}
SomeTimeouts == <<{0, 2}, {1}>>
OfUser == {"u1", "u2"}
DepthWidths == {10, 11}
Twice == {16, 24}
Small == {4, 6} \X {4, 6}
=============================================================================
