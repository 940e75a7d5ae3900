--------------------------- MODULE MCPluginFrames ---------------------------
(* Values for the model checker are in the configurations: a few frames,   *)
(* enough for each video buffer to be filled once.                         *)
EXTENDS PluginFrames
=============================================================================
