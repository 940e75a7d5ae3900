---------------------------- MODULE MCIsoStream -----------------------------
(* Three transfers: one may be in its callback, one in flight, one counted. *)
EXTENDS IsoStream
=============================================================================
